----------------------------- MODULE OpsProofs -----------------------------
(***************************************************************************)
(* The log files and the published health status, for every set of sinks,  *)
(* levels and kinds of lines, and without a bound on faults and days.      *)
(***************************************************************************)
EXTENDS Ops, TLAPS

-----------------------------------------------------------------------------
(* The log *)

WriterType == [today : Nat, file : {"nil", "open", "closed"}, err : BOOLEAN]

\* A writer that is at its day has its file open, and it failed only by a write.
AtItsDay(i) ==
    /\ writer[i].today <= day
    /\ writer[i].today = day /\ ~logClosed =>
          writer[i].file = "open" /\ (writer[i].err => spoiled[i] = day)

LogInv ==
    /\ day \in Nat \ {0} /\ disk \in DiskFaults /\ logClosed \in BOOLEAN
    /\ writer \in [Writers -> WriterType] /\ spoiled \in [Writers -> Nat]
    /\ \A i \in Writers : AtItsDay(i)

LEMMA RotatedType ==
    ASSUME LogInv, NEW w \in WriterType
    PROVE  /\ Rotated(w) \in WriterType /\ Written(Rotated(w)) \in WriterType
           /\ Written(Rotated(w)).today = Rotated(w).today
           /\ Rotated(w).today \in {w.today, day}
           /\ w.today = day => Rotated(w) = w
           /\ w.today # day => \/ Rotated(w).today = w.today
                               \/ /\ Rotated(w).today = day /\ Rotated(w).file = "open"
                                  /\ Rotated(w).err = FALSE
           /\ w.today # day /\ disk = "none" =>
                 Rotated(w).today = day /\ Rotated(w).file = "open" /\ Rotated(w).err = FALSE
<1>1. rotate(w) \in WriterType
  BY DEF LogInv, WriterType, rotate
<1>2. \/ rotate(w).today = w.today
      \/ rotate(w).today = day /\ rotate(w).file = "open" /\ rotate(w).err = FALSE
  BY DEF WriterType, rotate
<1>3. disk = "none" => rotate(w).today = day /\ rotate(w).file = "open" /\ rotate(w).err = FALSE
  BY DEF rotate
<1>4. ASSUME NEW v \in WriterType PROVE Written(v) \in WriterType /\ Written(v).today = v.today
  BY DEF WriterType, Written
<1> QED
  BY <1>1, <1>2, <1>3, <1>4 DEF Rotated

LEMMA LogStep ==
    ASSUME LogInv, NEW tags, Log(tags) PROVE LogInv'
<1>1. /\ day' = day /\ disk' = disk /\ logClosed' = logClosed
      /\ writer' = [i \in Writers |-> IF i \in Reached(tags) THEN Written(Rotated(writer[i]))
                                      ELSE writer[i]]
      /\ spoiled' = [i \in Writers |-> IF i \in Reached(tags) /\ disk = "write"
                                            /\ Rotated(writer[i]).file = "open"
                                         THEN day ELSE spoiled[i]]
  BY DEF Log
<1>2. ASSUME NEW i \in Writers PROVE writer[i] \in WriterType
  BY DEF LogInv
<1>3. writer' \in [Writers -> WriterType] /\ spoiled' \in [Writers -> Nat]
  BY <1>1, <1>2, RotatedType DEF LogInv
<1>4. ASSUME NEW i \in Writers PROVE AtItsDay(i)'
  <2> DEFINE w == writer[i]
             r == Rotated(w)
  <2>1. AtItsDay(i) /\ w \in WriterType /\ day \in Nat
    BY <1>2 DEF LogInv
  <2>2. CASE i \notin Reached(tags)
    BY <1>1, <2>1, <2>2 DEF AtItsDay
  <2>3. CASE i \in Reached(tags)
    <3>1. writer'[i] = Written(r) /\ r \in WriterType /\ Written(r).today = r.today
      BY <1>1, <2>1, <2>3, RotatedType
    <3>2. spoiled'[i] = IF disk = "write" /\ r.file = "open" THEN day ELSE spoiled[i]
      BY <1>1, <2>3
    <3>3. writer'[i].today <= day
      <4>1. r.today = w.today \/ r.today = day
        BY <2>1, RotatedType
      <4>2. w.today <= day /\ day <= day
        BY <2>1 DEF AtItsDay
      <4> QED BY <3>1, <4>1, <4>2
    <3>4. r.today = day /\ ~logClosed => r.file = "open" /\ (r.err => spoiled[i] = day)
      BY <2>1, RotatedType DEF AtItsDay
    <3> HIDE DEF r
    <3>5. r.file = "open" /\ (r.err => spoiled[i] = day) =>
              Written(r).file = "open" /\ (Written(r).err => spoiled'[i] = day)
      BY <3>1, <3>2 DEF Written, Lands, WriterType
    <3> QED BY <1>1, <3>1, <3>3, <3>4, <3>5 DEF AtItsDay
  <2> QED BY <2>2, <2>3
<1> QED
  BY <1>1, <1>3, <1>4 DEF LogInv

LEMMA LogEnvironment ==
    ASSUME LogInv, CloseLog \/ NewDay \/ (\E f \in DiskFaults : DiskIs(f)) \/ UNCHANGED logVars
    PROVE  LogInv'
<1> USE DEF LogInv, AtItsDay, WriterType
<1>1. CASE CloseLog
  BY <1>1 DEF CloseLog
<1>2. CASE NewDay
  BY <1>2 DEF NewDay
<1>3. CASE (\E f \in DiskFaults : DiskIs(f)) \/ UNCHANGED logVars
  BY <1>3 DEF DiskIs, logVars
<1> QED
  BY <1>1, <1>2, <1>3

LEMMA LogLands == LogInv => LinesLand
<1> SUFFICES ASSUME LogInv, disk = "none", ~logClosed, NEW tags \in Lines, NEW i \in Tagged(tags)
             PROVE  LandsToday(tags, i) \/ \E j \in Tagged(tags) : j <= i /\ spoiled[j] = day
  BY DEF LinesLand
<1>1. Tagged(tags) \subseteq Writers /\ Writers \subseteq Int
  <2>1. Len(FileLevels) \in Nat
    BY OpsAssumption
  <2> QED BY <2>1 DEF Tagged, Writers
<1>2. ASSUME NEW j \in Writers
      PROVE  /\ Rotated(writer[j]).today = day /\ Rotated(writer[j]).file = "open"
             /\ Rotated(writer[j]).err \in BOOLEAN
             /\ Rotated(writer[j]).err = TRUE => spoiled[j] = day
  <2>1. writer[j] \in WriterType /\ AtItsDay(j)
    BY DEF LogInv
  <2>2. CASE writer[j].today = day
    <3>1. Rotated(writer[j]) = writer[j]
      BY <2>1, <2>2, RotatedType
    <3> QED BY <2>1, <2>2, <3>1 DEF AtItsDay, WriterType
  <2>3. CASE writer[j].today # day
    BY <2>1, <2>3, RotatedType
  <2> QED BY <2>2, <2>3
<1>3. CASE i \in Reached(tags) /\ Rotated(writer[i]).err = FALSE
  BY <1>1, <1>2, <1>3 DEF LandsToday, Lands
<1>4. CASE i \in Reached(tags) /\ Rotated(writer[i]).err = TRUE
  <2>1. i \in Writers /\ i \in Int
    BY <1>1, Zenon
  <2>2. i <= i
    BY <2>1
  <2>3. spoiled[i] = day
    BY <1>2, <1>4, <2>1
  <2> QED BY <2>2, <2>3
<1>5. CASE i \notin Reached(tags)
  <2>1. PICK j \in Tagged(tags) : j < i /\ Fails(Rotated(writer[j]))
    BY <1>5 DEF Reached
  <2>2. j \in Writers /\ j <= i
    <3>1. j \in Writers /\ j \in Int /\ i \in Int
      BY <1>1, Zenon
    <3> QED BY <2>1, <3>1
  <2>3. Rotated(writer[j]).err = TRUE
    BY <1>2, <2>1, <2>2 DEF Fails
  <2>4. spoiled[j] = day
    BY <1>2, <2>2, <2>3
  <2> QED BY <2>2, <2>4
<1> QED
  BY <1>2, <1>1, <1>3, <1>4, <1>5

-----------------------------------------------------------------------------
(* The health checker *)

\* The results so far, and what a probe would answer now, belong to this check.
ProbesInv ==
    /\ hpc \in {"check", "wait", "exited"}
    /\ result \in [Probes -> {"unknown", "up", "down"}]
    /\ was \in [Probes -> SUBSET {"up", "down"}]
    /\ hpc # "check" => probing = None
    /\ hpc = "wait" => result = Unknown
    /\ \A c \in Probes : Answer(c) \in was[c]
    /\ \A c \in Probes : result[c] # "unknown" => result[c] \in was[c]

LEMMA ProbeStep ==
    ASSUME ProbesInv, NEW c \in Probes, StartProbe(c) \/ ProbeAnswers(c) \/ ProbeTimeout(c) \/ LateAnswer(c)
    PROVE  ProbesInv'
<1>1. sink' = sink /\ was' = was /\ hpc' = hpc
  BY DEF StartProbe, ProbeAnswers, ProbeTimeout, LateAnswer
<1>2. result' = result \/ result' = [result EXCEPT ![c] = Answer(c)]
  BY DEF StartProbe, ProbeAnswers, ProbeTimeout, LateAnswer, ProbeEnds, Answer
<1>3. ASSUME NEW d \in Probes PROVE Answer(d)' = Answer(d)
  BY <1>1 DEF Answer, State
<1>4. Answer(c) \in {"up", "down"}
  BY DEF Answer
<1>5. (hpc' # "check" => probing' = None) /\ (hpc' = "wait" => result' = Unknown)
  <2>1. ASSUME hpc # "check" PROVE result' = result /\ probing' = probing
    BY <2>1, OpsAssumption DEF StartProbe, ProbeAnswers, ProbeTimeout, LateAnswer, ProbesInv
  <2> QED BY <1>1, <2>1 DEF ProbesInv, Unknown
<1> QED
  BY <1>1, <1>2, <1>3, <1>4, <1>5 DEF ProbesInv

LEMMA SinksStep ==
    ASSUME ProbesInv, NEW s, SinksAre(s) PROVE ProbesInv'
<1>1. /\ sink' = s /\ UNCHANGED <<hpc, probing, result>>
      /\ was' = [c \in Probes |-> was[c] \cup {IF c \in Sinks /\ s[c] # "up" THEN "down" ELSE "up"}]
  BY DEF SinksAre, probeVars
<1>2. ASSUME NEW c \in Probes
      PROVE  Answer(c)' = IF c \in Sinks /\ s[c] # "up" THEN "down" ELSE "up"
  BY <1>1 DEF Answer, State
<1> QED
  BY <1>1, <1>2 DEF ProbesInv

LEMMA LoopStep ==
    ASSUME ProbesInv, Publish \/ CheckAgain \/ LoopStops \/ Ticks PROVE ProbesInv'
<1>1. sink' = sink /\ probing' = probing
  BY DEF Publish, CheckAgain, LoopStops, Ticks, probeVars
<1>2. ASSUME NEW c \in Probes PROVE Answer(c)' = Answer(c) /\ Answer(c) \in {"up", "down"}
  BY <1>1 DEF Answer, State
<1>3. CASE Publish
  BY <1>1, <1>2, <1>3 DEF ProbesInv, Publish, Unknown
<1>4. CASE CheckAgain
  BY <1>1, <1>2, <1>4 DEF ProbesInv, CheckAgain, Unknown
<1>5. CASE LoopStops
  BY <1>1, <1>2, <1>5 DEF ProbesInv, LoopStops
<1>6. CASE Ticks
  BY <1>1, <1>2, <1>6 DEF ProbesInv, Ticks, probeVars, Unknown
<1> QED
  BY <1>3, <1>4, <1>5, <1>6

LEMMA HealthStill ==
    ASSUME ProbesInv, UNCHANGED <<sink, hpc, probing, result, was>> PROVE ProbesInv'
<1>1. ASSUME NEW c \in Probes PROVE Answer(c)' = Answer(c)
  BY DEF Answer, State
<1> QED
  BY <1>1 DEF ProbesInv, Unknown

-----------------------------------------------------------------------------
(* Ops *)

OpsInv == LogInv /\ ProbesInv

LEMMA OpsStart == Init => OpsInv
<1> SUFFICES ASSUME Init PROVE OpsInv
  OBVIOUS
<1>1. LogInv
  <2>1. day = 1 /\ disk = "none" /\ logClosed = FALSE
    BY DEF Init, LogInit
  <2>2. writer \in [Writers -> WriterType] /\ spoiled \in [Writers -> Nat]
    BY DEF Init, LogInit, WriterType
  <2>3. ASSUME NEW i \in Writers PROVE writer[i].today = 0
    BY DEF Init, LogInit
  <2>4. \A i \in Writers : AtItsDay(i)
    BY <2>1, <2>3 DEF AtItsDay
  <2>5. day \in Nat \ {0} /\ disk \in DiskFaults
    BY <2>1 DEF DiskFaults
  <2>6. logClosed \in BOOLEAN
    BY <2>1, Zenon
  <2> QED BY <2>2, <2>4, <2>5, <2>6, Zenon DEF LogInv
<1>2. ProbesInv
  BY DEF Init, HealthInit, ProbesInv, Unknown, Answer, State
<1> QED
  BY <1>1, <1>2 DEF OpsInv

\* What a step does to the log: a line, a change of the environment, or nothing.
LEMMA LogPart ==
    ASSUME LogInv, [Next]_vars PROVE LogInv'
<1>1. ASSUME NEW from, NEW to, ShutdownPart(from, to) PROVE LogInv'
  BY <1>1, LogStep, LogEnvironment DEF ShutdownPart
<1>2. ASSUME NEW from, NEW to, StopHC(from, to) PROVE LogInv'
  BY <1>2, LogEnvironment DEF StopHC
<1>3. CASE Signal \/ Fatal \/ OtherLine
  BY <1>3, LogStep DEF Signal, Fatal, OtherLine
<1>4. CASE Close \/ Exit \/ SinkChanges \/ DayPasses
  BY <1>4, LogEnvironment DEF Close, Exit, SinkChanges, DayPasses
<1>5. CASE DiskFails \/ DiskHeals
  BY <1>5, LogEnvironment DEF DiskFails, DiskHeals, DiskFaults
<1>6. ASSUME NEW c \in Probes, Probing(c) \/ LateAnswer(c) PROVE LogInv'
  <2>1. (\E r \in {"up", "down"} : Report(r)) \/ UNCHANGED logVars
    BY <1>6 DEF Probing, StartProbe, ProbeAnswers, ProbeTimeout, LateAnswer, Answer
  <2> QED BY <2>1, LogStep, LogEnvironment DEF Report
<1>7. CASE Publish \/ CheckAgain \/ LoopStops \/ Ticks
  BY <1>7, LogEnvironment DEF Publish, CheckAgain, LoopStops, Ticks
<1>8. CASE UNCHANGED vars
  BY <1>8, LogEnvironment DEF vars
<1> QED
  BY <1>1, <1>2, <1>3, <1>4, <1>5, <1>6, <1>7, <1>8 DEF Next, RunStep, HealthNext, HealthStep

LEMMA HealthPart ==
    ASSUME ProbesInv, [Next]_vars PROVE ProbesInv'
<1> USE DEF healthVars, probeVars
<1>1. ASSUME NEW from, NEW to, ShutdownPart(from, to) PROVE ProbesInv'
  BY <1>1, SinksStep, HealthStill DEF ShutdownPart
<1>2. ASSUME NEW from, NEW to, StopHC(from, to) PROVE ProbesInv'
  BY <1>2, HealthStill DEF StopHC
<1>3. CASE Signal \/ Fatal \/ OtherLine \/ Close \/ Exit \/ DayPasses \/ DiskFails \/ DiskHeals
  BY <1>3, HealthStill DEF Signal, Fatal, OtherLine, Close, Exit, DayPasses, DiskFails, DiskHeals
<1>4. CASE SinkChanges
  BY <1>4, SinksStep DEF SinkChanges
<1>5. ASSUME NEW c \in Probes, Probing(c) \/ LateAnswer(c) PROVE ProbesInv'
  BY <1>5, ProbeStep DEF Probing
<1>6. CASE Publish \/ CheckAgain \/ LoopStops \/ Ticks
  BY <1>6, LoopStep
<1>7. CASE UNCHANGED vars
  BY <1>7, HealthStill DEF vars
<1> QED
  BY <1>1, <1>2, <1>3, <1>4, <1>5, <1>6, <1>7 DEF Next, RunStep, HealthNext, HealthStep

\* OpsInv is an invariant: open files, spoiled writers, probes and their answers.
THEOREM OpsInvariant == Spec => []OpsInv
<1>1. OpsInv /\ [Next]_vars => OpsInv'
  BY LogPart, HealthPart DEF OpsInv
<1> QED
  BY <1>1, OpsStart, PTL DEF Spec

\* Lines land in the file of their day, whatever failed before.
THEOREM Landing == Spec => []LinesLand
<1>1. OpsInv => LinesLand
  BY LogLands DEF OpsInv
<1> QED
  BY <1>1, OpsInvariant, PTL

\* The health checker publishes nothing that was not so during the check.
THEOREM Published == Spec => PublishedWasTrue
<1>1. OpsInv /\ [Next]_vars =>
          [hpc = "check" /\ hpc' = "wait" =>
              \A c \in Probes : statuses'[c] \in was[c]]_healthVars
  <2> SUFFICES ASSUME ProbesInv, [Next]_vars, hpc = "check", hpc' = "wait", NEW c \in Probes
               PROVE  statuses'[c] \in was[c]
    BY DEF OpsInv
  <2>1. Publish
    BY DEF Next, RunStep, HealthNext, HealthStep, Signal, ShutdownPart, SinksAre, StopHC, Fatal,
       Close, Exit, OtherLine, SinkChanges, DiskFails, DiskHeals, DayPasses, Probing, StartProbe,
       ProbeAnswers, ProbeTimeout, LateAnswer, CheckAgain, LoopStops, Ticks, vars, healthVars,
       probeVars
  <2> QED BY <2>1 DEF Publish, ProbesInv
<1> QED
  BY <1>1, OpsInvariant, PTL DEF Spec, PublishedWasTrue

-----------------------------------------------------------------------------
(* Types *)

\* An open file is the file of some day.
OpenDated == \A i \in Writers : writer[i].file = "open" => writer[i].today # 0

CheckerType ==
    /\ sink \in [Sinks -> {"up", "down", "hung"}]
    /\ probing \in Probes \cup {None} /\ abandoned \subseteq Sinks
    /\ statuses = Unknown \/ statuses \in [Probes -> {"up", "down"}]

RunType ==
    run \in {"serving", "server", "dispatcher", "wal", "stopping", "returned", "closed",
             "failed", "exited"}

OpsTypes == OpenDated /\ CheckerType /\ RunType

LEMMA OpsTypesInit == Init => OpsTypes
BY DEF Init, LogInit, HealthInit, OpsTypes, OpenDated, CheckerType, RunType

\* A line leaves a file open only under a date; day 0 is before the first day.
LEMMA LineDated ==
    ASSUME LogInv, OpenDated, NEW tags, Log(tags) PROVE OpenDated'
<1> SUFFICES ASSUME NEW i \in Writers, writer'[i].file = "open" PROVE writer'[i].today # 0
  BY DEF OpenDated
<1>1. writer[i] \in WriterType /\ day # 0 /\ (writer[i].file = "open" => writer[i].today # 0)
  BY DEF LogInv, OpenDated
<1>2. CASE writer'[i] = writer[i]
  BY <1>1, <1>2
<1>3. CASE writer'[i] = Written(Rotated(writer[i]))
  <2> DEFINE w == writer[i]
             r == Rotated(w)
  <2>1. r \in WriterType /\ Written(r).today = r.today
    BY <1>1, RotatedType
  <2>2. Written(r).file = r.file
    BY <2>1 DEF Written, WriterType
  <2>3. r.file = "open" => r.today # 0
    BY <1>1 DEF Rotated, rotate, WriterType
  <2> QED BY <1>3, <2>1, <2>2, <2>3
<1> QED BY <1>2, <1>3 DEF Log

LEMMA DatedStep == ASSUME LogInv, OpenDated, [Next]_vars PROVE OpenDated'
<1>1. CASE writer' = writer
  BY <1>1 DEF OpenDated
<1>2. CASE CloseLog
  BY <1>2 DEF CloseLog, OpenDated, LogInv, WriterType
<1>3. ASSUME NEW from, NEW to, ShutdownPart(from, to) PROVE OpenDated'
  BY <1>1, <1>3, LineDated DEF ShutdownPart, logVars
<1>4. CASE Signal \/ Fatal \/ OtherLine
  BY <1>4, LineDated DEF Signal, Fatal, OtherLine
<1>5. ASSUME NEW c \in Probes, Probing(c) \/ LateAnswer(c) PROVE OpenDated'
  <2>1. (\E r \in {"up", "down"} : Report(r)) \/ UNCHANGED logVars
    BY <1>5 DEF Probing, StartProbe, ProbeAnswers, ProbeTimeout, LateAnswer, Answer
  <2> QED BY <1>1, <2>1, LineDated DEF Report, logVars
<1>6. ASSUME \/ StopHC("serving", "failed") \/ StopHC("stopping", "returned")
             \/ Exit \/ SinkChanges \/ DayPasses \/ DiskFails \/ DiskHeals
             \/ Publish \/ CheckAgain \/ LoopStops \/ Ticks \/ UNCHANGED vars
      PROVE  writer' = writer
  BY <1>6 DEF StopHC, Exit, SinkChanges, DayPasses, NewDay, DiskFails, DiskHeals, DiskIs,
              Publish, CheckAgain, LoopStops, Ticks, vars, logVars
<1> QED
  BY <1>1, <1>2, <1>3, <1>4, <1>5, <1>6
  DEF Next, RunStep, Close, HealthNext, HealthStep

\* A probe that times out is one of a sink: the gateway's own answers at once.
LEMMA CheckerTypeStep == ASSUME ProbesInv, CheckerType, [Next]_vars PROVE CheckerType'
<1> USE DEF healthVars, probeVars
<1>1. CASE UNCHANGED <<sink, probing, abandoned, statuses>>
  BY <1>1 DEF CheckerType, Unknown
<1>2. ASSUME NEW s \in [Sinks -> {"up", "down", "hung"}], SinksAre(s) PROVE CheckerType'
  BY <1>2 DEF SinksAre, CheckerType, Unknown
<1>3. ASSUME NEW from, NEW to, ShutdownPart(from, to) PROVE CheckerType'
  <2>1. ASSUME NEW closed \in SUBSET Sinks
        PROVE  [c \in Sinks |-> IF c \in closed THEN "down" ELSE sink[c]]
                   \in [Sinks -> {"up", "down", "hung"}]
    BY DEF CheckerType
  <2> QED BY <1>1, <1>2, <1>3, <2>1 DEF ShutdownPart
<1>4. CASE SinkChanges
  BY <1>2, <1>4 DEF SinkChanges, CheckerType
<1>5. ASSUME NEW c \in Probes, StartProbe(c) \/ ProbeAnswers(c) \/ LateAnswer(c)
      PROVE  CheckerType'
  BY <1>5 DEF StartProbe, ProbeAnswers, LateAnswer, ProbeEnds, CheckerType, Unknown
<1>6. ASSUME NEW c \in Probes, ProbeTimeout(c) PROVE CheckerType'
  <2>1. c \in Sinks
    BY <1>6 DEF ProbeTimeout, State
  <2> QED BY <1>6, <2>1 DEF ProbeTimeout, ProbeEnds, CheckerType, Unknown
<1>7. CASE Publish
  BY <1>7 DEF Publish, CheckerType, ProbesInv
<1>8. ASSUME \/ Signal \/ Fatal \/ OtherLine \/ Close \/ Exit \/ DayPasses \/ DiskFails
             \/ DiskHeals \/ CheckAgain \/ LoopStops \/ Ticks \/ UNCHANGED vars
             \/ StopHC("serving", "failed") \/ StopHC("stopping", "returned")
      PROVE  UNCHANGED <<sink, probing, abandoned, statuses>>
  BY <1>8 DEF Signal, Fatal, OtherLine, Close, Exit, DayPasses, DiskFails, DiskHeals, CheckAgain,
              LoopStops, Ticks, StopHC, vars
<1> QED
  BY <1>1, <1>3, <1>4, <1>5, <1>6, <1>7, <1>8 DEF Next, RunStep, HealthNext, HealthStep, Probing

LEMMA RunTypeStep == ASSUME RunType, [Next]_vars PROVE RunType'
BY DEF RunType, Next, RunStep, Signal, ShutdownPart, StopHC, Fatal, Close, Exit, RunGoes,
       OtherLine, SinkChanges, DiskFails, DiskHeals, DayPasses, vars

\* Every variable of the shutdown, the health checker and the log keeps its type
\* (server.go Run and Close, observability.go, logging.go): what is published is
\* a complete check, no probe but a sink's is ever abandoned, and an open log
\* file is always the file of a day that has come.
THEOREM OpsTypeOK == Spec => []TypeOK
<1>1. OpsInv /\ OpsTypes /\ [Next]_vars => OpsTypes'
  BY DatedStep, CheckerTypeStep, RunTypeStep DEF OpsInv, OpsTypes
<1>2. OpsInv /\ OpsTypes => TypeOK
  <2> SUFFICES ASSUME LogInv, ProbesInv, OpsTypes PROVE TypeOK
    BY DEF OpsInv
  <2>1. writer \in [Writers -> [today : 0 .. day, file : {"nil", "open", "closed"}, err : BOOLEAN]]
    <3> SUFFICES ASSUME NEW i \in Writers
                 PROVE  writer[i] \in [today : 0 .. day, file : {"nil", "open", "closed"},
                                       err : BOOLEAN]
      BY DEF LogInv
    <3>1. writer[i] \in WriterType /\ writer[i].today <= day /\ day \in Nat
      BY DEF LogInv, AtItsDay
    <3> QED BY <3>1 DEF WriterType
  <2>2. day \in Nat \ {0} /\ disk \in DiskFaults /\ logClosed \in BOOLEAN
    BY DEF LogInv
  <2> QED
    BY <2>1, <2>2, Zenon DEF TypeOK, OpsTypes, OpenDated, CheckerType, RunType, ProbesInv
<1> QED
  BY <1>1, <1>2, OpsInvariant, OpsTypesInit, PTL DEF Spec

=============================================================================
