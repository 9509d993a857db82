-------------------------------- MODULE WAL --------------------------------
(***************************************************************************)
(* The disk write-ahead log of internal/wal/wal.go: one Writer, the sync   *)
(* loop, the background replay goroutine, and the directory of segment     *)
(* files they share, through crashes and restarts.                         *)
(*                                                                         *)
(* Entries are numbered in the order in which Write is called.  A segment  *)
(* only ever grows at its end, so its lines are in that order too and a    *)
(* file is the set of the entries whose complete line it holds; "torn"     *)
(* holds the files that end in an incomplete line.                         *)
(*                                                                         *)
(* Write holds w.mu from the start of its rotate to the end of its append, *)
(* which are two steps; the body of the sync loop and Close are one step   *)
(* each.  The replay goroutine takes w.mu only to read the active name     *)
(* (wal.go:421), so its listing, its scan and its removals interleave with *)
(* the writer.                                                             *)
(***************************************************************************)
EXTENDS Integers

CONSTANTS
    MaxEntries,         \* bound: how many times Write is called
    Size,               \* the length in bytes of each entry's line
    MaxSegmentBytes,    \* Config.MaxSegmentBytes
    HardReplayLineCap,  \* hardReplayLineCap
    ScanBuffer,         \* initial buffer of the replay scanner
    Modes,              \* pairs of syncEachWrite and ioFaults
    MaxSegment,         \* bound: the largest segment number
    MaxRestarts,        \* bound: process restarts
    MaxRejects          \* bound: entries the replay callback rejects

Entries  == 1 .. MaxEntries
SegNums  == 1 .. MaxSegment
NoName   == 0           \* activeName = ""
Faults   == {"readdir", "open", "flush", "sync", "remove", "read"}

ASSUME BoundsAssumption ==
    /\ MaxEntries \in Nat /\ MaxSegment \in Nat
    /\ MaxRestarts \in Nat /\ MaxRejects \in Nat

ASSUME SizeAssumption ==
    /\ Size \in [Entries -> Nat \ {0}]
    /\ MaxSegmentBytes \in Nat /\ HardReplayLineCap \in Nat
    /\ ScanBuffer \in Nat

ASSUME ModeAssumption ==
    Modes \subseteq BOOLEAN \X SUBSET Faults

VARIABLES
    syncEachWrite, \* Config.SyncInterval = 0
    ioFaults,     \* the system calls that may fail
    \* Writer
    proc,         \* "up", "closed" after Close, "down" after exit or crash
    activeSeg,    \* "nil", "open", or "closed" (a handle rotate has closed)
    activeName,   \* number of the active segment
    orphaned,     \* the active file is no longer linked in the directory
    buf,          \* entries in activeBuf
    bufErr,       \* sticky error of the bufio.Writer
    activeSize,
    rotated,      \* a Write holds w.mu: it has rotated and not yet appended
    syncOn,       \* the sync loop runs
    \* file system
    dir,          \* linked segment numbers
    lines,        \* complete lines of each linked file
    torn,         \* files that end in an incomplete line
    dirty,        \* entries written to the active file that are not fsynced
    \* replay goroutine
    rpc,          \* "idle", "list", "scan", "remove", "stopped"
    saw,          \* active name read at the start of the cycle
    todo,         \* listed segments still to be replayed
    pos,          \* last entry scanned in the current segment
    \* history
    nextEntry,    \* the entry of the next Write
    pending,      \* Write returned nil, not yet covered by an fsync
    durable,      \* Write returned nil and a later fsync succeeded
    accepted,     \* the replay callback returned nil
    exposed,      \* active segments that a replay cycle has listed
    restarts, rejects

diskVars    == <<dir, lines, torn, dirty>>
writerVars  == <<proc, activeSeg, activeName, orphaned, buf, bufErr, activeSize,
                 rotated, syncOn>>
replayVars  == <<rpc, saw, todo, pos>>
ackVars     == <<nextEntry, pending, durable>>
envVars     == <<syncEachWrite, ioFaults, restarts, rejects>>
vars == <<diskVars, writerVars, replayVars, ackVars, accepted, exposed, envVars>>

Init ==
    /\ \E m \in Modes : syncEachWrite = m[1] /\ ioFaults = m[2]
    /\ proc = "up" /\ activeSeg = "nil" /\ activeName = NoName
    /\ orphaned = FALSE /\ buf = {} /\ bufErr = FALSE /\ activeSize = 0
    /\ rotated = FALSE /\ syncOn = ~syncEachWrite
    /\ dir = {} /\ lines = [n \in SegNums |-> {}] /\ torn = {} /\ dirty = {}
    /\ rpc = "idle" /\ saw = NoName /\ todo = {} /\ pos = 0
    /\ nextEntry = 1 /\ pending = {} /\ durable = {} /\ accepted = {}
    /\ exposed = {} /\ restarts = 0 /\ rejects = 0

-----------------------------------------------------------------------------
(* Files and the buffer in front of the active one *)

First(n, S) == n \in S /\ \A m \in S : n <= m

\* The lines after the entries s are appended to file n: after a torn line,
\* the first appended line continues it and cannot be parsed.
Appended(n, s) ==
    [lines EXCEPT ![n] = @ \cup IF n \in torn THEN {e \in s : ~First(e, s)} ELSE s]

\* The bytes of the entries s leave the buffer for the active file.
WriteOut(s) ==
    IF orphaned \/ s = {}
    THEN UNCHANGED <<lines, torn>>
    ELSE lines' = Appended(activeName, s) /\ torn' = torn \ {activeName}

\* A successful Flush of b.
Flush(b) == WriteOut(b) /\ buf' = {}

\* A flush of b fails after the lines s, possibly inside the next line.
PartialWrite(b, s) ==
    /\ s # b /\ \A x \in s, y \in b \ s : x < y
    /\ \/ WriteOut(s)
       \/ /\ ~orphaned /\ torn' = torn \cup {activeName}
          /\ lines' = Appended(activeName, s)

\* Flush of b fails, on an I/O error or a closed handle; bufio keeps the error
\* and fails every later Write and Flush of this buffer.
FlushFails(b) ==
    /\ b # {} /\ bufErr' = TRUE
    /\ \/ activeSeg = "closed" /\ buf' = b /\ UNCHANGED <<lines, torn>>
       \/ /\ activeSeg = "open" /\ "flush" \in ioFaults
          /\ \E s \in SUBSET b : PartialWrite(b, s) /\ buf' = b \ s

\* activeSeg.Sync succeeds while the entries rest are still in the buffer: what
\* was acknowledged and has left the buffer is durable.
Sync(rest) ==
    /\ dirty' = {}
    /\ pending' = pending \cap rest /\ durable' = durable \cup (pending \ rest)

\* No Sync, or a failed one, after the entries s have left the buffer.
NoSync(s) == dirty' = dirty \cup s /\ UNCHANGED <<pending, durable>>

SyncMayFail == activeSeg = "closed" \/ "sync" \in ioFaults

-----------------------------------------------------------------------------
(* Write *)

\* nextSegmentNum: one more than the largest number in the directory, and 1
\* when the directory cannot be read.
nextSegmentNum(n) ==
    \/ (\A m \in dir : m < n) /\ (n = 1 \/ n - 1 \in dir)
    \/ "readdir" \in ioFaults /\ n = 1

NeedsRotate(e) == activeSeg = "nil" \/ activeSize + Size[e] > MaxSegmentBytes

WriteCalled(e) == proc # "down" /\ e = nextEntry

\* rotate on behalf of Write(e): flush, fsync and close the old segment, open
\* segment n.  purgeOldSegments only logs.
Rotate(e, n) ==
    /\ WriteCalled(e) /\ ~rotated /\ NeedsRotate(e)
    /\ activeSeg = "nil" \/ (activeSeg = "open" /\ ~bufErr)
    /\ nextSegmentNum(n)
    /\ Flush(buf) /\ Sync({})
    /\ activeSeg' = "open" /\ activeName' = n /\ orphaned' = FALSE
    /\ bufErr' = FALSE /\ activeSize' = 0 /\ rotated' = TRUE
    /\ dir' = dir \cup {n}
    /\ exposed' = exposed \cup ({n} \cap todo)
    /\ UNCHANGED <<proc, syncOn, replayVars, nextEntry, accepted, envVars>>

\* rotate returns an error, and Write with it: on a buffer or a handle that is
\* already dead, in Flush or in Sync, or (the old handle closed) in Close or
\* OpenFile.
RotateFails(e) ==
    /\ WriteCalled(e) /\ ~rotated /\ NeedsRotate(e)
    /\ nextEntry' = nextEntry + 1
    /\ \/ /\ activeSeg # "nil" /\ (bufErr \/ (activeSeg = "closed" /\ buf = {}))
          /\ UNCHANGED <<activeSeg, buf, bufErr, lines, torn, dirty, pending, durable>>
       \/ ~bufErr /\ FlushFails(buf) /\ NoSync(buf \ buf') /\ UNCHANGED activeSeg
       \/ /\ activeSeg = "open" /\ ~bufErr /\ SyncMayFail
          /\ Flush(buf) /\ NoSync(buf) /\ UNCHANGED <<activeSeg, bufErr>>
       \/ /\ "open" \in ioFaults
          /\ activeSeg = "nil" \/ (activeSeg = "open" /\ ~bufErr)
          /\ Flush(buf) /\ Sync({})
          /\ activeSeg' = IF activeSeg = "nil" THEN "nil" ELSE "closed"
          /\ UNCHANGED bufErr
    /\ UNCHANGED <<proc, activeName, orphaned, activeSize, rotated, syncOn, dir,
                   replayVars, accepted, exposed, envVars>>

\* w.activeSize += int64(n).  Variant: the size runs backwards.
ShrinkVariant(e) == activeSize' = activeSize - Size[e]
Grow(e) == activeSize' = activeSize + Size[e]

\* The rest of Write(e): append to activeBuf.  With a sync interval the entry
\* may stay in the buffer, and a buffer that fills up writes its older lines
\* or all of them; with SyncInterval = 0 everything is flushed and fsynced.
AppendEntry(e) ==
    /\ WriteCalled(e) /\ (rotated \/ ~NeedsRotate(e)) /\ ~bufErr
    /\ IF syncEachWrite
       THEN /\ activeSeg = "open"
            /\ Flush(buf \cup {e}) /\ dirty' = {}
            /\ pending' = {} /\ durable' = durable \cup pending \cup {e}
       ELSE \E s \in {{}, buf, buf \cup {e}} :
            /\ activeSeg = "closed" => s = {}
            /\ WriteOut(s) /\ buf' = (buf \cup {e}) \ s /\ dirty' = dirty \cup s
            /\ pending' = pending \cup {e} /\ UNCHANGED durable
    /\ Grow(e)
    /\ nextEntry' = nextEntry + 1 /\ rotated' = FALSE
    /\ UNCHANGED <<proc, activeSeg, activeName, orphaned, bufErr, syncOn, dir,
                   replayVars, accepted, exposed, envVars>>

\* Write(e) returns an error after the point where rotate could fail: the
\* buffer is dead, filling it or flushing it fails, or the fsync fails.
AppendFails(e) ==
    /\ WriteCalled(e) /\ (rotated \/ ~NeedsRotate(e))
    /\ nextEntry' = nextEntry + 1 /\ rotated' = FALSE
    /\ \/ bufErr /\ UNCHANGED <<buf, bufErr, activeSize, lines, torn, dirty, pending, durable>>
       \/ /\ ~bufErr /\ FlushFails(buf \cup {e}) /\ NoSync((buf \cup {e}) \ buf')
          /\ activeSize' = IF syncEachWrite THEN activeSize + Size[e] ELSE activeSize
       \/ /\ ~bufErr /\ syncEachWrite /\ activeSeg = "open" /\ SyncMayFail
          /\ Flush(buf \cup {e}) /\ NoSync(buf \cup {e})
          /\ Grow(e) /\ UNCHANGED bufErr
    /\ UNCHANGED <<proc, activeSeg, activeName, orphaned, syncOn, dir,
                   replayVars, accepted, exposed, envVars>>

-----------------------------------------------------------------------------
(* The sync loop, Close, exit and restart *)

\* A tick of syncLoop.  An error of Flush is only logged and Sync is called all
\* the same.
SyncTick ==
    /\ proc # "down" /\ syncOn /\ ~rotated /\ activeSeg # "nil"
    /\ \/ bufErr /\ UNCHANGED <<buf, bufErr, lines, torn>>
       \/ activeSeg = "open" /\ ~bufErr /\ Flush(buf) /\ UNCHANGED bufErr
       \/ ~bufErr /\ FlushFails(buf)
    /\ \/ activeSeg = "open" /\ Sync(buf')
       \/ SyncMayFail /\ NoSync(buf \ buf')
    /\ UNCHANGED <<proc, activeSeg, activeName, orphaned, activeSize, rotated, syncOn,
                   dir, replayVars, nextEntry, accepted, exposed, envVars>>

\* Variant: the loop may end before Close.
SyncLoopDiesVariant ==
    /\ syncOn /\ syncOn' = FALSE
    /\ UNCHANGED <<diskVars, proc, activeSeg, activeName, orphaned, buf, bufErr, activeSize,
                   rotated, replayVars, ackVars, accepted, exposed, envVars>>

\* The loop sees stopCh; a tick it has already received may come first.
SyncLoopStops ==
    /\ proc = "closed" /\ syncOn
    /\ syncOn' = FALSE
    /\ UNCHANGED <<diskVars, proc, activeSeg, activeName, orphaned, buf, bufErr, activeSize,
                   rotated, replayVars, ackVars, accepted, exposed, envVars>>

\* Close: flush, fsync and close, all errors ignored, and the buffer dropped
\* with the entries rest that could not be flushed.
Close ==
    /\ proc = "up" /\ ~rotated
    /\ proc' = "closed" /\ activeSeg' = "nil" /\ buf' = {} /\ pending' = {}
    /\ \E rest \in SUBSET buf :
        /\ \/ /\ (activeSeg = "open" => bufErr) /\ rest = buf
              /\ UNCHANGED <<lines, torn>>
           \/ activeSeg = "open" /\ ~bufErr /\ rest = {} /\ WriteOut(buf)
           \/ /\ activeSeg = "open" /\ ~bufErr /\ "flush" \in ioFaults
              /\ PartialWrite(buf, buf \ rest)
        /\ \/ activeSeg = "open" /\ dirty' = {} /\ durable' = durable \cup (pending \ rest)
           \/ /\ activeSeg = "nil" \/ SyncMayFail
              /\ dirty' = dirty \cup (buf \ rest) /\ UNCHANGED durable
    /\ UNCHANGED <<activeName, orphaned, bufErr, activeSize, rotated, syncOn, dir,
                   replayVars, nextEntry, accepted, exposed, envVars>>

\* The process ends: it exits after Close, is killed, or the machine loses
\* power.  Buffered entries are gone; of the lines that are not fsynced a
\* prefix survives, possibly followed by a part of the next line.
Crash ==
    /\ proc # "down" /\ proc' = "down"
    /\ activeSeg' = "nil" /\ buf' = {} /\ dirty' = {} /\ pending' = {}
    /\ \E s \in SUBSET dirty :
        /\ \A x \in s, y \in dirty \ s : x < y
        /\ lines' = IF orphaned \/ activeName = NoName THEN lines
                    ELSE [lines EXCEPT ![activeName] = @ \ (dirty \ s)]
        /\ \/ UNCHANGED torn
           \/ /\ activeSeg = "open" /\ ~orphaned /\ (s # dirty \/ buf # {})
              /\ torn' = torn \cup {activeName}
    /\ rotated' = FALSE /\ syncOn' = FALSE
    /\ rpc' = "stopped" /\ saw' = NoName /\ todo' = {} /\ pos' = 0
    /\ nextEntry' = IF rotated THEN nextEntry + 1 ELSE nextEntry
    /\ UNCHANGED <<activeName, orphaned, bufErr, activeSize, dir, durable, accepted,
                   exposed, envVars>>

\* NewWriter goes on with the latest segment m only if it is empty.  Variant:
\* it always does.
AlwaysReuseVariant(m) == TRUE
ReusesLatest(m) == lines[m] = {} /\ m \notin torn

\* NewWriter and StartReplay.  openLatest reopens the newest segment; unless
\* it is empty NewWriter seals it and opens segment n.
Restart ==
    /\ proc = "down" /\ restarts < MaxRestarts
    /\ proc' = "up" /\ restarts' = restarts + 1
    /\ bufErr' = FALSE /\ activeSize' = 0 /\ orphaned' = FALSE
    /\ \/ /\ dir = {}
          /\ activeSeg' = "nil" /\ activeName' = NoName /\ UNCHANGED dir
       \/ \E m \in dir :
            /\ \A k \in dir : k <= m
            /\ activeSeg' = "open"
            /\ IF ReusesLatest(m)
               THEN activeName' = m /\ UNCHANGED dir
               ELSE \E n \in SegNums : /\ nextSegmentNum(n)
                                       /\ activeName' = n /\ dir' = dir \cup {n}
    /\ syncOn' = ~syncEachWrite /\ rpc' = "idle"
    /\ UNCHANGED <<lines, torn, dirty, buf, rotated, saw, todo, pos, ackVars,
                   accepted, exposed, rejects, syncEachWrite, ioFaults>>

-----------------------------------------------------------------------------
(* The replay goroutine: replayLoop, replaySealedSegments, replaySegment *)

ReplayReadActive ==
    /\ rpc = "idle" /\ ~rotated
    /\ saw' = activeName /\ rpc' = "list"
    /\ UNCHANGED <<diskVars, writerVars, todo, pos, ackVars, accepted, exposed, envVars>>

\* Listing: every segment except the one whose name was read before.
ReplayReadDir ==
    /\ rpc = "list"
    /\ \/ /\ todo' = dir \ {saw}
          /\ rpc' = IF todo' = {} THEN "idle" ELSE "scan"
          /\ exposed' = exposed \cup ({activeName} \cap todo')
       \/ "readdir" \in ioFaults /\ rpc' = "idle" /\ UNCHANGED <<todo, exposed>>
    /\ pos' = 0 /\ saw' = NoName
    /\ UNCHANGED <<diskVars, writerVars, ackVars, accepted, envVars>>

\* A line longer than the scanner's buffer ends the scan with ErrTooLong.
maxReplayLineBytes ==
    IF MaxSegmentBytes > 0 /\ MaxSegmentBytes < HardReplayLineCap
    THEN MaxSegmentBytes ELSE HardReplayLineCap

TooLong(e) == Size[e] > ScanBuffer /\ Size[e] > maxReplayLineBytes

Unscanned(n) == {e \in lines[n] : e > pos}

\* The break out of the segment loop, back to the ticker.  Variant: the replay
\* goroutine ends with the first error.
GiveUpVariant == rpc' = "stopped" /\ todo' = {} /\ pos' = 0
EndCycle == rpc' = "idle" /\ todo' = {} /\ pos' = 0

\* The next line of segment n is handed to the callback.
ReplayAccept(n, e) ==
    /\ rpc = "scan" /\ First(n, todo) /\ First(e, Unscanned(n)) /\ ~TooLong(e)
    /\ accepted' = accepted \cup {e} /\ pos' = e
    /\ UNCHANGED <<diskVars, writerVars, rpc, saw, todo, ackVars, exposed, envVars>>

\* Variant: replay goes on with the next segment.
SkipSegmentVariant(n, e) ==
    /\ rpc = "scan" /\ First(n, todo) /\ First(e, Unscanned(n)) /\ ~TooLong(e)
    /\ rejects < MaxRejects /\ rejects' = rejects + 1
    /\ todo' = todo \ {n} /\ pos' = 0 /\ rpc' = IF todo' = {} THEN "idle" ELSE "scan"
    /\ UNCHANGED <<diskVars, writerVars, saw, ackVars, accepted, exposed, restarts,
                   syncEachWrite, ioFaults>>

\* The callback returns an error or panics: the cycle ends.
ReplayReject(n, e) ==
    /\ rpc = "scan" /\ First(n, todo) /\ First(e, Unscanned(n)) /\ ~TooLong(e)
    /\ rejects < MaxRejects /\ rejects' = rejects + 1
    /\ EndCycle
    /\ UNCHANGED <<diskVars, writerVars, saw, ackVars, accepted, exposed, restarts,
                   syncEachWrite, ioFaults>>

\* Variant: scanner.Err is not looked at, and an unreadable rest passes for the
\* end of the file.
IgnoreErrVariant(n) ==
    /\ rpc = "scan" /\ First(n, todo)
    /\ "read" \in ioFaults \/ \E e \in Unscanned(n) : First(e, Unscanned(n)) /\ TooLong(e)
    /\ rpc' = "remove"
    /\ UNCHANGED <<diskVars, writerVars, saw, todo, pos, ackVars, accepted, exposed, envVars>>

\* The segment cannot be opened or read, or its next line is too long.
ReplayScanFails(n) ==
    /\ rpc = "scan" /\ First(n, todo)
    /\ "read" \in ioFaults \/ \E e \in Unscanned(n) : First(e, Unscanned(n)) /\ TooLong(e)
    /\ EndCycle
    /\ UNCHANGED <<diskVars, writerVars, saw, ackVars, accepted, exposed, envVars>>

\* End of file; a torn line is skipped.
ReplayEOF(n) ==
    /\ rpc = "scan" /\ First(n, todo) /\ Unscanned(n) = {}
    /\ rpc' = "remove"
    /\ UNCHANGED <<diskVars, writerVars, saw, todo, pos, ackVars, accepted, exposed, envVars>>

\* removeSegmentFile, then the next listed segment.  The file stays when all
\* three attempts fail.
ReplayRemove(n) ==
    /\ rpc = "remove" /\ First(n, todo)
    /\ \/ /\ dir' = dir \ {n} /\ torn' = torn \ {n}
          /\ lines' = [lines EXCEPT ![n] = {}]
          /\ orphaned' = (orphaned \/ (n = activeName /\ activeSeg # "nil"))
       \/ "remove" \in ioFaults /\ UNCHANGED <<dir, torn, lines, orphaned>>
    /\ todo' = todo \ {n} /\ pos' = 0
    /\ rpc' = IF todo' = {} THEN "idle" ELSE "scan"
    /\ UNCHANGED <<dirty, proc, activeSeg, activeName, buf, bufErr, activeSize, rotated,
                   syncOn, saw, ackVars, accepted, exposed, envVars>>

ReplayStops ==
    /\ proc = "closed" /\ rpc = "idle"
    /\ rpc' = "stopped"
    /\ UNCHANGED <<diskVars, writerVars, saw, todo, pos, ackVars, accepted, exposed, envVars>>

-----------------------------------------------------------------------------
Write(e) ==
    \/ \E n \in SegNums : Rotate(e, n)
    \/ RotateFails(e) \/ AppendEntry(e) \/ AppendFails(e)

Scan(n) == (\E e \in Entries : ReplayAccept(n, e) \/ ReplayReject(n, e))
           \/ ReplayScanFails(n) \/ ReplayEOF(n)

Replay == \/ ReplayReadActive \/ ReplayReadDir \/ ReplayStops
          \/ \E n \in SegNums : Scan(n) \/ ReplayRemove(n)

Next == \/ \E e \in Entries : Write(e)
        \/ SyncTick \/ SyncLoopStops \/ Close \/ Crash \/ Restart
        \/ Replay

Spec == Init /\ [][Next]_vars

\* A goroutine that can run does: the holder of w.mu finishes its Write, the
\* sync ticker fires, and the replay goroutine goes on.
Fairness ==
    /\ WF_vars(rotated /\ \E e \in Entries : Write(e))
    /\ WF_vars(SyncTick)
    /\ WF_vars(Replay)

FairSpec == Spec /\ Fairness

-----------------------------------------------------------------------------
(* Properties *)

TypeOK ==
    /\ syncEachWrite \in BOOLEAN /\ ioFaults \subseteq Faults
    /\ proc \in {"up", "closed", "down"}
    /\ activeSeg \in {"nil", "open", "closed"}
    /\ activeName \in SegNums \cup {NoName}
    /\ orphaned \in BOOLEAN /\ bufErr \in BOOLEAN /\ rotated \in BOOLEAN
    /\ syncOn \in BOOLEAN
    /\ buf \subseteq Entries /\ dirty \subseteq Entries
    /\ activeSize \in Nat
    /\ dir \subseteq SegNums /\ torn \subseteq SegNums
    /\ lines \in [SegNums -> SUBSET Entries]
    /\ rpc \in {"idle", "list", "scan", "remove", "stopped"}
    /\ saw \in SegNums \cup {NoName} /\ todo \subseteq SegNums
    /\ pos \in Entries \cup {0}
    /\ nextEntry \in Entries \cup {MaxEntries + 1}
    /\ pending \subseteq Entries /\ durable \subseteq Entries
    /\ accepted \subseteq Entries /\ exposed \subseteq SegNums
    /\ restarts \in 0 .. MaxRestarts /\ rejects \in 0 .. MaxRejects

Linked == UNION {lines[n] : n \in dir}

\* "deletion is only safe after replay callbacks have accepted every entry in
\* a segment" (wal.go:550): replaySealedSegments unlinks a segment that was
\* sealed while it was listed only when every entry in it has been accepted.
RemovedOnlyAfterAcceptance ==
    [][\A n \in dir \ dir' : n \notin exposed => lines[n] \subseteq accepted]_vars

\* While the directory can be read (nextSegmentNum starts again from 1 when it
\* cannot), an entry that Write acknowledged and that a later fsync covered
\* survives crashes, rotations and replays: it has been accepted by the replay
\* callback or its line is readable in a linked segment.  (Until a replay cycle
\* lists the active segment, see ActiveNeverReplayed.)
DurableKept ==
    "readdir" \notin ioFaults /\ exposed = {} => durable \subseteq accepted \cup Linked

\* Replay hands entries over in the order they were written: a durable entry is
\* never overtaken by a later one, through rejections, failed removals,
\* crashes and restarts.
ReplayInOrder ==
    "readdir" \notin ioFaults /\ exposed = {} =>
        \A e \in accepted, d \in durable : d < e => d \in accepted

\* Every entry that reaches a sealed segment is eventually accepted while the
\* process stays up, whatever the callback rejected before (finitely often)
\* and whatever is written meanwhile.
SealedReplayed ==
    \A e \in Entries :
        (proc = "up" /\ \E n \in dir : n # activeName /\ e \in lines[n])
            ~> (e \in accepted \/ proc # "up" \/ exposed # {})

\* An acknowledged entry does not stay in the buffer: the sync loop, a rotation
\* or Close makes it durable unless the process dies first.
EventuallySynced ==
    \A e \in Entries : (proc = "up" /\ e \in pending) ~> (e \in durable \/ proc = "down")

\* README.md:377, the backlog is replayed "without a restart": a durable entry
\* is eventually accepted while the process stays up.
BacklogReplayedWithoutRestart ==
    \A e \in Entries :
        e \in durable ~> (e \in accepted \/ proc # "up" \/ exposed # {})

\* wal.go:383, "The active segment is never replayed."
ActiveNeverReplayed ==
    rpc \in {"scan", "remove"} /\ activeSeg = "open" => ~First(activeName, todo)

=============================================================================
