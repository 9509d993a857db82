------------------------------ MODULE DailyLog ------------------------------
(***************************************************************************)
(* The log files (internal/logging): a file a day for each configured      *)
(* level.  The output of the log package is a MultiWriter over the level   *)
(* filters, and the log package holds a lock around it, so one line is one *)
(* step.  A buffer that failed to flush keeps its error.                   *)
(***************************************************************************)
EXTENDS Integers, Sequences

CONSTANTS
    FileLevels,   \* log.file.levels: the levels with a file, in their order
    Lines         \* the level tags that occur in a line, for each kind of line

\* What the file system refuses: MkdirAll, OpenFile or writes.
DiskFaults == {"none", "mkdir", "open", "write"}

Writers == 1 .. Len(FileLevels)

VARIABLES
    day,        \* the UTC date
    disk,       \* the fault of the file system
    writer,     \* today, file and the error of buf, for each dailyWriter
    logClosed,  \* Close has been called
    spoiled     \* history: the last day on which the flush of an open file failed

logVars  == <<day, disk, writer, logClosed, spoiled>>

\* Setup; nothing is opened before the first line.
LogInit ==
    /\ day = 1 /\ disk = "none" /\ logClosed = FALSE
    /\ writer = [i \in Writers |-> [today |-> 0, file |-> "nil", err |-> FALSE]]
    /\ spoiled = [i \in Writers |-> 0]

-----------------------------------------------------------------------------
\* Variant: today is set before anything can fail.
MarkEarlyVariant(w) ==
    CASE disk = "mkdir" -> [w EXCEPT !.today = day, !.file = IF @ = "nil" THEN "nil" ELSE "closed"]
      [] disk = "open"  -> [w EXCEPT !.today = day, !.file = "nil"]
      [] OTHER          -> [today |-> day, file |-> "open", err |-> FALSE]
rotate(w) ==
    CASE disk = "mkdir" -> [w EXCEPT !.file = IF @ = "nil" THEN "nil" ELSE "closed"]
      [] disk = "open"  -> [w EXCEPT !.file = "nil"]
      [] OTHER          -> [today |-> day, file |-> "open", err |-> FALSE]

\* The writer when Write has looked at the date.
Rotated(w) == IF w.today # day THEN rotate(w) ELSE w

\* The line reaches the file; Write returns an error.
Lands(w) == w.file = "open" /\ ~w.err /\ disk # "write"
Fails(w) == w.file # "nil" /\ w.err

\* The writer after the line.  The error of Flush is not returned, but it stays.
Written(w) == IF w.file = "nil" \/ Lands(w) THEN w ELSE [w EXCEPT !.err = TRUE]

\* levelFilter and MultiWriter: the writers whose tag is in the line, up to the
\* first that returns an error.
Tagged(tags) == {i \in Writers : FileLevels[i] \in tags}

Reached(tags) ==
    {i \in Tagged(tags) : \A j \in Tagged(tags) : j < i => ~Fails(Rotated(writer[j]))}

Log(tags) ==
    LET R == Reached(tags) IN
    /\ writer' = [i \in Writers |-> IF i \in R THEN Written(Rotated(writer[i])) ELSE writer[i]]
    /\ spoiled' = [i \in Writers |-> IF i \in R /\ disk = "write" /\ Rotated(writer[i]).file = "open"
                                     THEN day ELSE spoiled[i]]
    /\ UNCHANGED <<day, disk, logClosed>>

\* Close of every dailyWriter; the log package keeps writing to them.
CloseLog ==
    /\ logClosed' = TRUE
    /\ writer' = [i \in Writers |-> [writer[i] EXCEPT !.file = "nil"]]
    /\ UNCHANGED <<day, disk, spoiled>>

NewDay ==
    /\ day' = day + 1
    /\ UNCHANGED <<disk, writer, logClosed, spoiled>>

DiskIs(f) ==
    /\ disk' = f /\ f # disk
    /\ UNCHANGED <<day, writer, logClosed, spoiled>>

-----------------------------------------------------------------------------
\* A line with these tags reaches the file of its own day.
LandsToday(tags, i) ==
    LET w == Rotated(writer[i]) IN i \in Reached(tags) /\ Lands(w) /\ w.today = day

\* A line that is logged while the file system works lands in the file of its
\* own day and of each level it is tagged with.  After a failed MkdirAll or
\* OpenFile the next line tries again.  After a failed write the level has no
\* file for the rest of that day, and neither have the levels after it for the
\* lines they share.
LinesLand ==
    disk = "none" /\ ~logClosed =>
        \A tags \in Lines : \A i \in Tagged(tags) :
            LandsToday(tags, i) \/ \E j \in Tagged(tags) : j <= i /\ spoiled[j] = day

=============================================================================
