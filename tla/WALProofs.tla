----------------------------- MODULE WALProofs -----------------------------
(***************************************************************************)
(* Proofs about WAL for every number of entries, segments, restarts and    *)
(* rejections, every line size and every set of failing system calls.      *)
(***************************************************************************)
EXTENDS WAL, TLAPS

USE DEF NoName

-----------------------------------------------------------------------------
(* Types *)

\* TypeOK made inductive: a handle has a name, and a Write between its rotate
\* and its append is that of a live process, with an open segment and an entry.
TypeInv ==
    /\ TypeOK
    /\ activeSeg # "nil" => activeName \in SegNums
    /\ rotated => proc # "down" /\ activeSeg = "open" /\ nextEntry \in Entries

\* Writing lines to a file keeps the file system well typed.
LEMMA AppendedType ==
    ASSUME TypeInv, NEW n, NEW s, s \subseteq Entries
    PROVE  Appended(n, s) \in [SegNums -> SUBSET Entries]
BY DEF Appended, TypeInv, TypeOK

LEMMA WriteOutType ==
    ASSUME TypeInv, NEW s, s \subseteq Entries, WriteOut(s)
    PROVE  lines' \in [SegNums -> SUBSET Entries] /\ torn' \subseteq SegNums
BY AppendedType DEF WriteOut, TypeInv, TypeOK

LEMMA PartialWriteType ==
    ASSUME TypeInv, activeSeg = "open", NEW b, NEW s, s \subseteq Entries, PartialWrite(b, s)
    PROVE  lines' \in [SegNums -> SUBSET Entries] /\ torn' \subseteq SegNums
BY AppendedType, WriteOutType DEF PartialWrite, TypeInv, TypeOK

LEMMA FlushFailsType ==
    ASSUME TypeInv, NEW b, b \subseteq Entries, FlushFails(b)
    PROVE  /\ lines' \in [SegNums -> SUBSET Entries] /\ torn' \subseteq SegNums
           /\ buf' \subseteq b /\ bufErr' \in BOOLEAN
<1>1. CASE activeSeg = "closed" /\ buf' = b /\ UNCHANGED <<lines, torn>>
    BY <1>1 DEF FlushFails, TypeInv, TypeOK
<1>2. CASE activeSeg = "open" /\ \E s \in SUBSET b : PartialWrite(b, s) /\ buf' = b \ s
    BY <1>2, PartialWriteType DEF FlushFails
<1>3. QED BY <1>1, <1>2 DEF FlushFails

LEMMA EntryFacts ==
    ASSUME TypeInv, NEW e \in Entries, e = nextEntry
    PROVE  /\ nextEntry + 1 \in Entries \cup {MaxEntries + 1}
           /\ activeSize + Size[e] \in Nat
BY BoundsAssumption, SizeAssumption DEF TypeInv, TypeOK, Entries

\* Each step of the log keeps the types.
LEMMA TypeStep == TypeInv /\ [Next]_vars => TypeInv'
<1> SUFFICES ASSUME TypeInv, [Next]_vars PROVE TypeInv'
    OBVIOUS
<1> USE BoundsAssumption
<1>1. ASSUME NEW e \in Entries, NEW n \in SegNums, Rotate(e, n) PROVE TypeInv'
    <2>1. lines' \in [SegNums -> SUBSET Entries] /\ torn' \subseteq SegNums
        BY <1>1, WriteOutType DEF Rotate, Flush, TypeInv, TypeOK
    <2>2. QED
        BY <1>1, <2>1 DEF Rotate, WriteCalled, Flush, Sync, TypeInv, TypeOK, replayVars, envVars
<1>2. ASSUME NEW e \in Entries, RotateFails(e) PROVE TypeInv'
    <2>1. /\ lines' \in [SegNums -> SUBSET Entries] /\ torn' \subseteq SegNums
          /\ buf' \subseteq Entries /\ dirty' \subseteq Entries /\ bufErr' \in BOOLEAN
          /\ pending' \subseteq Entries /\ durable' \subseteq Entries
          /\ activeSeg' \in {"nil", "open", "closed"} /\ (activeSeg' # "nil" => activeSeg # "nil")
        <3>1. CASE UNCHANGED <<activeSeg, buf, bufErr, lines, torn, dirty, pending, durable>>
            BY <3>1 DEF TypeInv, TypeOK
        <3>2. CASE FlushFails(buf) /\ NoSync(buf \ buf') /\ UNCHANGED activeSeg
            BY <3>2, FlushFailsType DEF NoSync, TypeInv, TypeOK
        <3>3. CASE Flush(buf) /\ NoSync(buf) /\ UNCHANGED <<activeSeg, bufErr>>
            BY <3>3, WriteOutType DEF Flush, NoSync, TypeInv, TypeOK
        <3>4. CASE /\ Flush(buf) /\ Sync({}) /\ UNCHANGED bufErr
                   /\ activeSeg' = IF activeSeg = "nil" THEN "nil" ELSE "closed"
            BY <3>4, WriteOutType DEF Flush, Sync, TypeInv, TypeOK
        <3>5. QED BY <1>2, <3>1, <3>2, <3>3, <3>4 DEF RotateFails
    <2>2. QED
        BY <1>2, <2>1, EntryFacts DEF RotateFails, WriteCalled, TypeInv, TypeOK, replayVars, envVars
<1>3. ASSUME NEW e \in Entries, AppendEntry(e) PROVE TypeInv'
    <2>1. /\ lines' \in [SegNums -> SUBSET Entries] /\ torn' \subseteq SegNums
          /\ buf' \subseteq Entries /\ dirty' \subseteq Entries
          /\ pending' \subseteq Entries /\ durable' \subseteq Entries
        <3>1. CASE syncEachWrite
            BY <1>3, <3>1, WriteOutType DEF AppendEntry, Flush, TypeInv, TypeOK
        <3>2. CASE ~syncEachWrite
            <4>1. PICK s \in {{}, buf, buf \cup {e}} :
                    /\ WriteOut(s) /\ buf' = (buf \cup {e}) \ s /\ dirty' = dirty \cup s
                    /\ pending' = pending \cup {e} /\ UNCHANGED durable
                BY <1>3, <3>2 DEF AppendEntry
            <4>2. s \subseteq Entries
                BY DEF TypeInv, TypeOK
            <4>3. QED BY <4>1, <4>2, WriteOutType DEF TypeInv, TypeOK
        <3>3. QED BY <3>1, <3>2
    <2>2. activeSize' \in Nat /\ nextEntry' \in Entries \cup {MaxEntries + 1}
        BY <1>3, EntryFacts DEF AppendEntry, WriteCalled, Grow, TypeInv, TypeOK
    <2>3. UNCHANGED <<proc, activeSeg, activeName, orphaned, bufErr, syncOn, dir, replayVars,
                      accepted, exposed, envVars>> /\ rotated' = FALSE
        BY <1>3 DEF AppendEntry
    <2>4. syncEachWrite' \in BOOLEAN /\ rotated' \in BOOLEAN
        BY <2>3, Zenon DEF TypeInv, TypeOK, envVars
    <2>5. QED
        BY <2>1, <2>2, <2>3, <2>4, ZenonT(60) DEF TypeInv, TypeOK, replayVars, envVars
<1>4. ASSUME NEW e \in Entries, AppendFails(e) PROVE TypeInv'
    <2>1. /\ lines' \in [SegNums -> SUBSET Entries] /\ torn' \subseteq SegNums
          /\ buf' \subseteq Entries /\ dirty' \subseteq Entries /\ bufErr' \in BOOLEAN
          /\ pending' \subseteq Entries /\ durable' \subseteq Entries /\ activeSize' \in Nat
        <3> DEFINE b == buf \cup {e}
        <3>0. b \subseteq Entries /\ activeSize + Size[e] \in Nat /\ activeSize \in Nat
            BY <1>4, EntryFacts DEF AppendFails, WriteCalled, TypeInv, TypeOK
        <3>1. CASE UNCHANGED <<buf, bufErr, activeSize, lines, torn, dirty, pending, durable>>
            BY <3>1 DEF TypeInv, TypeOK
        <3>2. CASE /\ FlushFails(b) /\ NoSync(b \ buf')
                   /\ activeSize' = IF syncEachWrite THEN activeSize + Size[e] ELSE activeSize
            <4> HIDE DEF b
            <4> QED BY <3>0, <3>2, FlushFailsType DEF NoSync, TypeInv, TypeOK
        <3>3. CASE Flush(b) /\ NoSync(b) /\ Grow(e) /\ UNCHANGED bufErr
            <4> HIDE DEF b
            <4> QED BY <3>0, <3>3, WriteOutType DEF Flush, NoSync, Grow, TypeInv, TypeOK
        <3>4. QED BY <1>4, <3>1, <3>2, <3>3 DEF AppendFails
    <2>2. nextEntry' \in Entries \cup {MaxEntries + 1}
        BY <1>4, EntryFacts DEF AppendFails, WriteCalled, TypeInv, TypeOK
    <2>3. UNCHANGED <<proc, activeSeg, activeName, orphaned, syncOn, dir, replayVars,
                      accepted, exposed, envVars>> /\ rotated' = FALSE
        BY <1>4 DEF AppendFails
    <2>4. syncEachWrite' \in BOOLEAN /\ rotated' \in BOOLEAN
        BY <2>3, Zenon DEF TypeInv, TypeOK, envVars
    <2>5. QED
        BY <2>1, <2>2, <2>3, <2>4, ZenonT(60) DEF TypeInv, TypeOK, replayVars, envVars
<1>5. ASSUME SyncTick PROVE TypeInv'
    <2>1. /\ lines' \in [SegNums -> SUBSET Entries] /\ torn' \subseteq SegNums
          /\ buf' \subseteq Entries /\ bufErr' \in BOOLEAN
        BY <1>5, WriteOutType, FlushFailsType DEF SyncTick, Flush, TypeInv, TypeOK
    <2>2. dirty' \subseteq Entries /\ pending' \subseteq Entries /\ durable' \subseteq Entries
        BY <1>5, <2>1 DEF SyncTick, Sync, NoSync, TypeInv, TypeOK
    <2>3. UNCHANGED <<proc, activeSeg, activeName, orphaned, activeSize, rotated, syncOn, dir,
                      replayVars, nextEntry, accepted, exposed, envVars>>
        BY <1>5 DEF SyncTick
    <2>4. QED
        BY <2>1, <2>2, <2>3, ZenonT(60) DEF TypeInv, TypeOK, replayVars, envVars
<1>6. ASSUME SyncLoopStops PROVE TypeInv'
    BY <1>6, ZenonT(60) DEF SyncLoopStops, TypeInv, TypeOK, diskVars, replayVars, ackVars, envVars
<1>7. ASSUME Close PROVE TypeInv'
    <2>1. /\ lines' \in [SegNums -> SUBSET Entries] /\ torn' \subseteq SegNums
          /\ dirty' \subseteq Entries /\ durable' \subseteq Entries
        <3>1. PICK rest \in SUBSET buf :
                /\ \/ UNCHANGED <<lines, torn>>
                   \/ WriteOut(buf)
                   \/ activeSeg = "open" /\ PartialWrite(buf, buf \ rest)
                /\ \/ dirty' = {} /\ durable' = durable \cup (pending \ rest)
                   \/ dirty' = dirty \cup (buf \ rest) /\ UNCHANGED durable
            BY <1>7 DEF Close
        <3>2. buf \subseteq Entries /\ buf \ rest \subseteq Entries
            BY DEF TypeInv, TypeOK
        <3>3. QED BY <3>1, <3>2, WriteOutType, PartialWriteType DEF TypeInv, TypeOK
    <2>2. QED BY <1>7, <2>1 DEF Close, TypeInv, TypeOK, replayVars, envVars
<1>8. ASSUME Crash PROVE TypeInv'
    <2>1. lines' \in [SegNums -> SUBSET Entries] /\ torn' \subseteq SegNums
        BY <1>8 DEF Crash, TypeInv, TypeOK
    <2>2. nextEntry' \in Entries \cup {MaxEntries + 1}
        BY <1>8 DEF Crash, TypeInv, TypeOK, Entries
    <2>3. QED BY <1>8, <2>1, <2>2 DEF Crash, TypeInv, TypeOK, envVars
<1>9. ASSUME Restart PROVE TypeInv'
    <2>1. /\ activeName' \in SegNums \cup {NoName} /\ dir' \subseteq SegNums
          /\ activeSeg' \in {"nil", "open"} /\ (activeSeg' # "nil" => activeName' \in SegNums)
        BY <1>9 DEF Restart, TypeInv, TypeOK
    <2>2. restarts' \in 0 .. MaxRestarts
        BY <1>9 DEF Restart, TypeInv, TypeOK
    <2>3. ~rotated'
        BY <1>9 DEF Restart, TypeInv
    <2>4. syncOn' \in BOOLEAN
        BY <1>9, ModeAssumption DEF Restart
    <2>5. QED BY <1>9, <2>1, <2>2, <2>3, <2>4 DEF Restart, TypeInv, TypeOK, ackVars
<1>10. ASSUME Replay PROVE TypeInv'
    <2> USE DEF TypeInv, TypeOK, diskVars, writerVars, ackVars, envVars
    <2>1. CASE ReplayReadActive
        BY <2>1 DEF ReplayReadActive
    <2>2. CASE ReplayReadDir
        BY <2>2 DEF ReplayReadDir
    <2>3. CASE ReplayStops
        BY <2>3 DEF ReplayStops
    <2>4. ASSUME NEW n \in SegNums, NEW e \in Entries, ReplayAccept(n, e) PROVE TypeInv'
        BY <2>4 DEF ReplayAccept
    <2>5. ASSUME NEW n \in SegNums, NEW e \in Entries, ReplayReject(n, e) PROVE TypeInv'
        BY <2>5 DEF ReplayReject, EndCycle
    <2>6. ASSUME NEW n \in SegNums, ReplayScanFails(n) PROVE TypeInv'
        BY <2>6 DEF ReplayScanFails, EndCycle
    <2>7. ASSUME NEW n \in SegNums, ReplayEOF(n) PROVE TypeInv'
        BY <2>7 DEF ReplayEOF
    <2>8. ASSUME NEW n \in SegNums, ReplayRemove(n) PROVE TypeInv'
        <3>1. /\ dir' \subseteq SegNums /\ torn' \subseteq SegNums /\ orphaned' \in BOOLEAN
              /\ lines' \in [SegNums -> SUBSET Entries]
            BY <2>8 DEF ReplayRemove
        <3>2. QED BY <2>8, <3>1 DEF ReplayRemove
    <2>9. QED
        BY <1>10, <2>1, <2>2, <2>3, <2>4, <2>5, <2>6, <2>7, <2>8 DEF Replay, Scan
<1>11. ASSUME UNCHANGED vars PROVE TypeInv'
    BY <1>11 DEF vars, diskVars, writerVars, replayVars, ackVars, envVars, TypeInv, TypeOK
<1>12. ASSUME NEW e \in Entries, Write(e) PROVE TypeInv'
    BY <1>1, <1>2, <1>3, <1>4, <1>12 DEF Write
<1>13. QED
    BY <1>5, <1>6, <1>7, <1>8, <1>9, <1>10, <1>11, <1>12 DEF Next

LEMMA TypeInit == Init => TypeInv
<1> SUFFICES ASSUME Init PROVE TypeInv
    OBVIOUS
<1>0. syncEachWrite \in BOOLEAN /\ ioFaults \subseteq Faults
    <2>1. PICK m \in BOOLEAN \X SUBSET Faults : syncEachWrite = m[1] /\ ioFaults = m[2]
        BY ModeAssumption DEF Init
    <2>2. QED BY <2>1
<1>1. syncOn \in BOOLEAN
    BY <1>0 DEF Init
<1>2. nextEntry \in Entries \cup {MaxEntries + 1} /\ 0 \in 0 .. MaxRestarts /\ 0 \in 0 .. MaxRejects
    BY BoundsAssumption DEF Init, Entries
<1>3. QED BY <1>0, <1>1, <1>2 DEF Init, TypeInv, TypeOK

\* The variables of the log keep their types whatever the environment does.
THEOREM TypeCorrect == Spec => []TypeOK
<1>1. TypeInv => TypeOK
    BY DEF TypeInv
<1>2. QED BY TypeInit, TypeStep, <1>1, PTL DEF Spec

-----------------------------------------------------------------------------
(* Deletion only after acceptance *)

\* What the replay goroutine knows about the segment it is at, unless it is an
\* active one: the lines it has scanned are accepted, and all of them when it
\* is about to remove the segment.  An active segment on its list is known as
\* exposed, so the writer touches no other segment on it.
ReplayInv ==
    /\ activeName \in todo => activeName \in exposed
    /\ proc = "down" => rpc = "stopped" /\ todo = {}
    /\ \A n \in SegNums : First(n, todo) /\ n \notin exposed =>
        /\ rpc = "scan" => \A e \in lines[n] : e <= pos => e \in accepted
        /\ rpc = "remove" => lines[n] \subseteq accepted

\* Writes to the log change the active segment only.
OnlyActiveWritten == \A n \in SegNums : n # activeName => lines'[n] = lines[n]

LEMMA WriteOutLocal ==
    ASSUME TypeInv, NEW s, WriteOut(s) PROVE OnlyActiveWritten
BY DEF WriteOut, Appended, OnlyActiveWritten, TypeInv, TypeOK

LEMMA PartialWriteLocal ==
    ASSUME TypeInv, NEW b, NEW s, PartialWrite(b, s) PROVE OnlyActiveWritten
BY WriteOutLocal DEF PartialWrite, Appended, OnlyActiveWritten, TypeInv, TypeOK

LEMMA FlushFailsLocal ==
    ASSUME TypeInv, NEW b, FlushFails(b) PROVE OnlyActiveWritten
BY PartialWriteLocal DEF FlushFails, OnlyActiveWritten

\* A step of the writer keeps ReplayInv.
LEMMA WriterKeepsReplayInv ==
    ASSUME TypeInv, ReplayInv, UNCHANGED <<rpc, todo, pos, accepted>>, OnlyActiveWritten,
           exposed \subseteq exposed', activeName' \in todo => activeName' \in exposed',
           proc' = "down" => proc = "down"
    PROVE  ReplayInv'
BY DEF ReplayInv, OnlyActiveWritten, First

\* Each step of the log keeps ReplayInv.
LEMMA ReplayStep == TypeInv /\ ReplayInv /\ [Next]_vars => ReplayInv'
<1> SUFFICES ASSUME TypeInv, ReplayInv, [Next]_vars PROVE ReplayInv'
    OBVIOUS
<1>1. ASSUME NEW e \in Entries, NEW n \in SegNums, Rotate(e, n) PROVE ReplayInv'
    <2>1. OnlyActiveWritten
        BY <1>1, WriteOutLocal DEF Rotate, Flush
    <2>2. QED BY <1>1, <2>1, WriterKeepsReplayInv DEF Rotate, replayVars
<1>2. ASSUME NEW e \in Entries, RotateFails(e) PROVE ReplayInv'
    <2>1. OnlyActiveWritten
        BY <1>2, WriteOutLocal, FlushFailsLocal DEF RotateFails, Flush, OnlyActiveWritten
    <2>2. QED BY <1>2, <2>1, WriterKeepsReplayInv DEF RotateFails, replayVars, ReplayInv
<1>3. ASSUME NEW e \in Entries, AppendEntry(e) PROVE ReplayInv'
    <2>1. OnlyActiveWritten
        BY <1>3, WriteOutLocal DEF AppendEntry, Flush
    <2>2. QED BY <1>3, <2>1, WriterKeepsReplayInv DEF AppendEntry, replayVars, ReplayInv
<1>4. ASSUME NEW e \in Entries, AppendFails(e) PROVE ReplayInv'
    <2>1. OnlyActiveWritten
        BY <1>4, WriteOutLocal, FlushFailsLocal DEF AppendFails, Flush, OnlyActiveWritten
    <2>2. QED BY <1>4, <2>1, WriterKeepsReplayInv DEF AppendFails, replayVars, ReplayInv
<1>5. ASSUME SyncTick PROVE ReplayInv'
    <2>1. OnlyActiveWritten
        BY <1>5, WriteOutLocal, FlushFailsLocal DEF SyncTick, Flush, OnlyActiveWritten
    <2>2. QED BY <1>5, <2>1, WriterKeepsReplayInv DEF SyncTick, replayVars, ReplayInv
<1>6. ASSUME SyncLoopStops PROVE ReplayInv'
    <2>1. OnlyActiveWritten
        BY <1>6 DEF SyncLoopStops, OnlyActiveWritten, diskVars
    <2>2. QED BY <1>6, <2>1, WriterKeepsReplayInv DEF SyncLoopStops, replayVars, ReplayInv
<1>7. ASSUME Close PROVE ReplayInv'
    <2>1. OnlyActiveWritten
        BY <1>7, WriteOutLocal, PartialWriteLocal DEF Close, OnlyActiveWritten
    <2>2. QED BY <1>7, <2>1, WriterKeepsReplayInv DEF Close, replayVars, ReplayInv
<1>8. ASSUME Crash PROVE ReplayInv'
    BY <1>8 DEF Crash, ReplayInv, First
<1>9. ASSUME Restart PROVE ReplayInv'
    BY <1>9 DEF Restart, ReplayInv, First
<1>10. ASSUME Replay PROVE ReplayInv'
    <2> USE DEF ReplayInv, diskVars, writerVars
    <2>1. CASE ReplayReadActive
        BY <2>1 DEF ReplayReadActive
    <2>2. CASE ReplayReadDir
        <3>1. \A n \in SegNums : \A e \in lines[n] : ~(e <= 0)
            BY BoundsAssumption DEF TypeInv, TypeOK, Entries
        <3>2. QED BY <2>2, <3>1 DEF ReplayReadDir
    <2>3. CASE ReplayStops
        BY <2>3 DEF ReplayStops
    <2>4. ASSUME NEW n \in SegNums, NEW e \in Entries, ReplayAccept(n, e) PROVE ReplayInv'
        <3>1. ASSUME NEW k \in SegNums, First(k, todo), k \notin exposed
              PROVE  \A d \in lines[k] : d <= e => d \in accepted \cup {e}
            <4>1. k = n
                BY <2>4, <3>1 DEF ReplayAccept, First, SegNums
            <4>2. ASSUME NEW d \in lines[n], d <= e, d # e PROVE d <= pos
                BY <2>4, <4>2, BoundsAssumption
                DEF ReplayAccept, First, Unscanned, TypeInv, TypeOK, Entries
            <4>3. QED BY <2>4, <3>1, <4>1, <4>2 DEF ReplayAccept
        <3>2. QED BY <2>4, <3>1 DEF ReplayAccept, First
    <2>5. ASSUME NEW n \in SegNums, NEW e \in Entries, ReplayReject(n, e) PROVE ReplayInv'
        BY <2>5 DEF ReplayReject, EndCycle, First
    <2>6. ASSUME NEW n \in SegNums, ReplayScanFails(n) PROVE ReplayInv'
        BY <2>6 DEF ReplayScanFails, EndCycle, First
    <2>7. ASSUME NEW n \in SegNums, ReplayEOF(n) PROVE ReplayInv'
        <3>1. \A k \in SegNums : First(k, todo) => k = n
            <4>1. todo \subseteq Nat /\ First(n, todo)
                BY <2>7 DEF ReplayEOF, TypeInv, TypeOK, SegNums
            <4>2. QED BY <4>1 DEF First
        <3>2. \A e \in lines[n] : e <= pos
            <4>1. lines[n] \subseteq Nat /\ pos \in Nat
                BY BoundsAssumption DEF TypeInv, TypeOK, Entries
            <4>2. \A e \in lines[n] : ~(e > pos)
                BY <2>7 DEF ReplayEOF, Unscanned
            <4>3. QED BY <4>1, <4>2
        <3>3. QED BY <2>7, <3>1, <3>2 DEF ReplayEOF, First
    <2>8. ASSUME NEW n \in SegNums, ReplayRemove(n) PROVE ReplayInv'
        <3>1. \A k \in SegNums : \A e \in lines'[k] : ~(e <= 0)
            BY <2>8, BoundsAssumption DEF ReplayRemove, TypeInv, TypeOK, Entries
        <3>2. QED BY <2>8, <3>1 DEF ReplayRemove, First
    <2>9. QED
        BY <1>10, <2>1, <2>2, <2>3, <2>4, <2>5, <2>6, <2>7, <2>8 DEF Replay, Scan
<1>11. ASSUME UNCHANGED vars PROVE ReplayInv'
    BY <1>11 DEF vars, diskVars, writerVars, replayVars, ReplayInv, First
<1>12. ASSUME NEW e \in Entries, Write(e) PROVE ReplayInv'
    BY <1>1, <1>2, <1>3, <1>4, <1>12 DEF Write
<1>13. QED
    BY <1>5, <1>6, <1>7, <1>8, <1>9, <1>10, <1>11, <1>12 DEF Next

LEMMA ReplayInit == Init => ReplayInv
BY DEF Init, ReplayInv, First

\* A step that unlinks a segment is ReplayRemove of it.
LEMMA UnlinkStep ==
    ASSUME TypeInv, ReplayInv, [Next]_vars, NEW n \in dir \ dir', n \notin exposed
    PROVE  lines[n] \subseteq accepted
<1>1. n \in SegNums
    BY DEF TypeInv, TypeOK
<1>2. \E k \in SegNums : ReplayRemove(k)
    BY DEF Next, Write, Replay, Scan, vars, diskVars, Rotate, RotateFails, AppendEntry,
           AppendFails, SyncTick, SyncLoopStops, Close, Crash, Restart, ReplayReadActive,
           ReplayReadDir, ReplayStops, ReplayAccept, ReplayReject, ReplayScanFails, ReplayEOF
<1>3. QED BY <1>1, <1>2 DEF ReplayRemove, ReplayInv

\* replaySealedSegments deletes a segment that was sealed when it was listed
\* only after the callback has accepted every entry in it, for all sizes, all
\* interleavings with the writer and all I/O faults.
THEOREM DeletionSafe == Spec => RemovedOnlyAfterAcceptance
<1>1. TypeInv /\ ReplayInv /\ [Next]_vars
        => [\A n \in dir \ dir' : n \notin exposed => lines[n] \subseteq accepted]_vars
    BY UnlinkStep
<1>2. QED
    BY TypeInit, ReplayInit, TypeStep, ReplayStep, <1>1, PTL DEF Spec, RemovedOnlyAfterAcceptance

-----------------------------------------------------------------------------
(* Durability *)

\* DurableKept where the directory can be read.
Held == exposed = {} => durable \subseteq accepted \cup Linked

\* Where the writer's entries are, for a directory that can be read: an
\* acknowledged entry is in the buffer or, not fsynced, in the active file; a
\* durable one is in neither, so neither a crash nor a discarded buffer can
\* lose it.  The writer never appends to a torn file.
DurableInv ==
    /\ torn \subseteq dir
    /\ activeSeg # "nil" /\ ~orphaned => activeName \in dir /\ dirty \subseteq lines[activeName]
    /\ orphaned => activeName \in exposed
    /\ activeSeg = "open" /\ ~bufErr /\ ~orphaned => activeName \notin torn
    /\ activeSeg = "nil" => buf = {} /\ pending = {}
    /\ proc = "down" => activeSeg = "nil" /\ dirty = {}
    /\ pending \subseteq buf \cup dirty
    /\ (buf \cup dirty) \cap durable = {}
    /\ \A e \in pending \cup durable : e < nextEntry
    /\ Held

\* The lines s are appended to the active file, or go to a file that is gone.
Wrote(s) ==
    \/ (s = {} \/ orphaned) /\ UNCHANGED <<lines, torn>>
    \/ /\ ~orphaned /\ activeSeg # "nil"
       /\ lines' = [lines EXCEPT ![activeName] = @ \cup s]
       /\ torn' \subseteq torn \cup {activeName}

\* No line is lost to a torn one: a file the writer appends to is not torn.
LEMMA WriteOutWrote ==
    ASSUME TypeInv, DurableInv, NEW s, WriteOut(s),
           s # {} => activeSeg = "open" /\ ~bufErr
    PROVE  Wrote(s) /\ torn' \subseteq torn
<1>1. CASE orphaned \/ s = {}
    BY <1>1 DEF WriteOut, Wrote
<1>2. CASE ~(orphaned \/ s = {})
    <2>1. activeName \notin torn
        BY <1>2 DEF DurableInv
    <2>2. lines' = [lines EXCEPT ![activeName] = @ \cup s] /\ torn' = torn \ {activeName}
        BY <1>2, <2>1 DEF WriteOut, Appended
    <2>3. QED BY <1>2, <2>2 DEF Wrote
<1>3. QED BY <1>1, <1>2

LEMMA PartialWriteWrote ==
    ASSUME TypeInv, DurableInv, NEW b, NEW s, PartialWrite(b, s),
           activeSeg = "open", ~bufErr
    PROVE  Wrote(s)
<1>1. CASE WriteOut(s)
    BY <1>1, WriteOutWrote
<1>2. CASE ~orphaned /\ torn' = torn \cup {activeName} /\ lines' = Appended(activeName, s)
    <2>1. activeName \notin torn
        BY <1>2 DEF DurableInv
    <2>2. QED BY <1>2, <2>1 DEF Wrote, Appended
<1>3. QED BY <1>1, <1>2 DEF PartialWrite

LEMMA FlushFailsWrote ==
    ASSUME TypeInv, DurableInv, NEW b, FlushFails(b), ~bufErr
    PROVE  Wrote(b \ buf') /\ buf' \subseteq b
<1>1. CASE activeSeg = "closed" /\ buf' = b /\ UNCHANGED <<lines, torn>>
    BY <1>1 DEF Wrote
<1>2. CASE activeSeg = "open" /\ \E s \in SUBSET b : PartialWrite(b, s) /\ buf' = b \ s
    <2>1. PICK s \in SUBSET b : PartialWrite(b, s) /\ buf' = b \ s
        BY <1>2
    <2>2. b \ buf' = s
        BY <2>1
    <2>3. QED BY <1>2, <2>1, <2>2, PartialWriteWrote
<1>3. QED BY <1>1, <1>2 DEF FlushFails

\* Appending lines loses none that is linked.
LEMMA WroteKeeps ==
    ASSUME TypeInv, DurableInv, NEW s, Wrote(s), UNCHANGED dir
    PROVE  /\ Linked \subseteq Linked'
           /\ activeSeg # "nil" /\ ~orphaned => dirty \cup s \subseteq lines'[activeName]
                                             /\ lines'[activeName] \subseteq Linked'
           /\ torn' \subseteq dir
<1>1. \A n \in SegNums : lines[n] \subseteq lines'[n]
    BY DEF Wrote, TypeInv, TypeOK
<1>2. Linked \subseteq Linked'
    BY <1>1 DEF Linked, TypeInv, TypeOK
<1>3. ASSUME activeSeg # "nil", ~orphaned
      PROVE  dirty \cup s \subseteq lines'[activeName] /\ lines'[activeName] \subseteq Linked'
    <2>1. activeName \in SegNums /\ activeName \in dir /\ dirty \subseteq lines[activeName]
        BY <1>3 DEF TypeInv, DurableInv
    <2>2. s \subseteq lines'[activeName]
        BY <1>3, <2>1 DEF Wrote, TypeInv, TypeOK
    <2>3. lines'[activeName] \subseteq Linked'
        BY <2>1 DEF Linked
    <2>4. QED BY <1>1, <2>1, <2>2, <2>3
<1>4. torn' \subseteq dir
    BY DEF Wrote, DurableInv
<1>5. QED BY <1>2, <1>3, <1>4

\* A step of the writer that appends the lines s to the segment it has.
LEMMA WriterKeepsDurableInv ==
    ASSUME TypeInv, DurableInv, NEW s, Wrote(s),
           UNCHANGED <<dir, exposed, accepted, orphaned, activeName>>,
           activeSeg' # "nil" => activeSeg # "nil",
           activeSeg' = "open" /\ ~bufErr' =>
                activeSeg = "open" /\ ~bufErr /\ torn' \subseteq torn,
           activeSeg' = "nil" => buf' = {} /\ pending' = {},
           proc' # "down",
           dirty' \subseteq dirty \cup s,
           durable' \subseteq durable \cup dirty \cup s,
           activeSeg = "nil" => durable' = durable,
           pending' \subseteq buf' \cup dirty',
           (buf' \cup dirty') \cap durable' = {},
           \A e \in pending' \cup durable' : e < nextEntry'
    PROVE  DurableInv'
<1>1. Held'
    <2> SUFFICES ASSUME exposed = {} PROVE durable' \subseteq accepted \cup Linked'
        BY DEF Held
    <2>1. ~orphaned /\ durable \subseteq accepted \cup Linked
        BY DEF DurableInv, Held
    <2>2. CASE activeSeg = "nil"
        BY <2>1, <2>2, WroteKeeps
    <2>3. CASE activeSeg # "nil"
        BY <2>1, <2>3, WroteKeeps
    <2>4. QED BY <2>2, <2>3
<1>2. torn' \subseteq dir'
    BY WroteKeeps
<1>3. activeSeg' # "nil" /\ ~orphaned'
        => activeName' \in dir' /\ dirty' \subseteq lines'[activeName']
    BY WroteKeeps DEF DurableInv
<1>4. QED BY <1>1, <1>2, <1>3 DEF DurableInv

\* The entry of a Write is new, and what is on record is older.
LEMMA NewEntry ==
    ASSUME TypeInv, DurableInv, NEW e \in Entries, e = nextEntry
    PROVE  /\ e \notin durable /\ e < nextEntry + 1
           /\ \A d \in pending \cup durable : d < nextEntry + 1
BY BoundsAssumption DEF TypeInv, TypeOK, DurableInv, Entries

\* A new segment has a number that no linked file has.
LEMMA FreshSegment ==
    ASSUME TypeInv, DurableInv, "readdir" \notin ioFaults, NEW n \in SegNums, nextSegmentNum(n)
    PROVE  n \notin dir /\ n \notin torn
BY BoundsAssumption DEF nextSegmentNum, DurableInv, SegNums

\* Each step of the writer keeps DurableInv.
LEMMA DurableWriteStep ==
    ASSUME TypeInv, DurableInv, "readdir" \notin ioFaults, NEW e \in Entries, Write(e)
    PROVE  DurableInv'
<1>1. ASSUME NEW n \in SegNums, Rotate(e, n) PROVE DurableInv'
    <2>1. Wrote(buf) /\ torn' \subseteq torn
        BY <1>1, WriteOutWrote DEF Rotate, Flush, DurableInv
    <2>2. n \notin dir /\ n \notin torn
        BY <1>1, FreshSegment DEF Rotate
    <2>3. \A k \in SegNums : lines[k] \subseteq lines'[k]
        BY <2>1 DEF Wrote, TypeInv, TypeOK
    <2>4. Linked \subseteq Linked'
        <3>1. dir \subseteq SegNums /\ dir \subseteq dir'
            BY <1>1 DEF Rotate, TypeInv, TypeOK
        <3>2. QED BY <2>3, <3>1 DEF Linked
    <2>5. Held'
        <3> SUFFICES ASSUME exposed = {} PROVE durable' \subseteq accepted \cup Linked'
            BY <1>1 DEF Held, Rotate
        <3>1. ~orphaned /\ durable \subseteq accepted \cup Linked
            BY DEF DurableInv, Held
        <3>2. pending \subseteq Linked'
            <4>1. CASE activeSeg = "nil"
                BY <4>1 DEF DurableInv
            <4>2. CASE activeSeg # "nil"
                <5>1. activeName \in dir /\ activeName \in SegNums /\ pending \subseteq buf \cup dirty
                    BY <3>1, <4>2 DEF DurableInv, TypeInv
                <5>2. buf \cup dirty \subseteq lines'[activeName]
                    BY <2>1, <2>3, <3>1, <4>2, <5>1 DEF Wrote, DurableInv, TypeInv, TypeOK
                <5>3. lines'[activeName] \subseteq Linked'
                    BY <1>1, <5>1 DEF Rotate, Linked
                <5>4. QED BY <5>1, <5>2, <5>3
            <4>3. QED BY <4>1, <4>2
        <3>3. QED BY <1>1, <2>4, <3>1, <3>2 DEF Rotate, Sync
    <2>6. \A d \in durable' : d < nextEntry'
        BY <1>1 DEF Rotate, Sync, DurableInv
    <2>7. QED BY <1>1, <2>1, <2>2, <2>5, <2>6 DEF Rotate, WriteCalled, Flush, Sync, DurableInv
<1>2. ASSUME RotateFails(e) PROVE DurableInv'
    <2> USE NewEntry
    <2>0. /\ UNCHANGED <<dir, exposed, accepted, orphaned, activeName, proc>>
          /\ proc # "down" /\ e = nextEntry /\ nextEntry' = nextEntry + 1
        BY <1>2 DEF RotateFails, WriteCalled
    <2>1. CASE UNCHANGED <<activeSeg, buf, bufErr, lines, torn, dirty, pending, durable>>
        <3>1. Wrote({})
            BY <2>1 DEF Wrote
        <3>2. QED BY <2>0, <2>1, <3>1, WriterKeepsDurableInv DEF DurableInv
    <2>2. CASE ~bufErr /\ FlushFails(buf) /\ NoSync(buf \ buf') /\ UNCHANGED activeSeg
        <3>1. Wrote(buf \ buf') /\ buf' \subseteq buf /\ bufErr'
            BY <2>2, FlushFailsWrote DEF FlushFails
        <3>2. activeSeg # "nil"
            BY <2>2 DEF FlushFails
        <3>3. QED BY <2>0, <2>2, <3>1, <3>2, WriterKeepsDurableInv DEF NoSync, DurableInv
    <2>3. CASE /\ activeSeg = "open" /\ ~bufErr
               /\ Flush(buf) /\ NoSync(buf) /\ UNCHANGED <<activeSeg, bufErr>>
        <3>1. Wrote(buf) /\ torn' \subseteq torn
            BY <2>3, WriteOutWrote DEF Flush
        <3>2. QED BY <2>0, <2>3, <3>1, WriterKeepsDurableInv DEF Flush, NoSync, DurableInv
    <2>4. CASE /\ activeSeg = "nil" \/ (activeSeg = "open" /\ ~bufErr)
               /\ Flush(buf) /\ Sync({}) /\ UNCHANGED bufErr
               /\ activeSeg' = IF activeSeg = "nil" THEN "nil" ELSE "closed"
        <3>1. Wrote(buf)
            BY <2>4, WriteOutWrote DEF Flush, DurableInv
        <3>2. QED BY <2>0, <2>4, <3>1, WriterKeepsDurableInv DEF Flush, Sync, DurableInv
    <2>5. QED BY <1>2, <2>1, <2>2, <2>3, <2>4 DEF RotateFails
<1>3. ASSUME AppendEntry(e) PROVE DurableInv'
    <2> USE NewEntry
    <2>0. /\ UNCHANGED <<dir, exposed, accepted, orphaned, activeName, proc, activeSeg, bufErr>>
          /\ proc # "down" /\ e = nextEntry /\ nextEntry' = nextEntry + 1 /\ ~bufErr
          /\ activeSeg \in {"open", "closed"}
        BY <1>3 DEF AppendEntry, WriteCalled, NeedsRotate, TypeInv, TypeOK
    <2>1. CASE syncEachWrite
        <3>1. Wrote(buf \cup {e}) /\ torn' \subseteq torn
            BY <1>3, <2>1, WriteOutWrote DEF AppendEntry, Flush
        <3>2. QED
            BY <1>3, <2>0, <2>1, <3>1, WriterKeepsDurableInv DEF AppendEntry, Flush, DurableInv
    <2>2. CASE ~syncEachWrite
        <3>1. PICK s \in {{}, buf, buf \cup {e}} :
                /\ activeSeg = "closed" => s = {}
                /\ WriteOut(s) /\ buf' = (buf \cup {e}) \ s /\ dirty' = dirty \cup s
                /\ pending' = pending \cup {e} /\ UNCHANGED durable
            BY <1>3, <2>2 DEF AppendEntry
        <3>2. Wrote(s) /\ torn' \subseteq torn
            BY <2>0, <3>1, WriteOutWrote
        <3>3. s \subseteq buf \cup {e}
            OBVIOUS
        <3>4. QED BY <2>0, <3>1, <3>2, <3>3, WriterKeepsDurableInv DEF DurableInv
    <2>3. QED BY <2>1, <2>2
<1>4. ASSUME AppendFails(e) PROVE DurableInv'
    <2> USE NewEntry
    <2>0. /\ UNCHANGED <<dir, exposed, accepted, orphaned, activeName, proc, activeSeg>>
          /\ proc # "down" /\ e = nextEntry /\ nextEntry' = nextEntry + 1
          /\ activeSeg \in {"open", "closed"}
        BY <1>4 DEF AppendFails, WriteCalled, NeedsRotate, TypeInv, TypeOK
    <2>1. CASE UNCHANGED <<buf, bufErr, lines, torn, dirty, pending, durable>>
        <3>1. Wrote({})
            BY <2>1 DEF Wrote
        <3>2. QED BY <2>0, <2>1, <3>1, WriterKeepsDurableInv DEF DurableInv
    <2>2. CASE ~bufErr /\ FlushFails(buf \cup {e}) /\ NoSync((buf \cup {e}) \ buf')
        <3>1. Wrote((buf \cup {e}) \ buf') /\ buf' \subseteq buf \cup {e} /\ bufErr'
            BY <2>2, FlushFailsWrote DEF FlushFails
        <3>2. QED BY <2>0, <2>2, <3>1, WriterKeepsDurableInv DEF NoSync, DurableInv
    <2>3. CASE /\ activeSeg = "open" /\ ~bufErr
               /\ Flush(buf \cup {e}) /\ NoSync(buf \cup {e}) /\ UNCHANGED bufErr
        <3>1. Wrote(buf \cup {e}) /\ torn' \subseteq torn
            BY <2>3, WriteOutWrote DEF Flush
        <3>2. QED BY <2>0, <2>3, <3>1, WriterKeepsDurableInv DEF Flush, NoSync, DurableInv
    <2>4. QED BY <1>4, <2>1, <2>2, <2>3 DEF AppendFails
<1>5. QED BY <1>1, <1>2, <1>3, <1>4 DEF Write

\* Each step of the log keeps DurableInv.
LEMMA DurableStep ==
    ASSUME "readdir" \notin ioFaults
    PROVE  TypeInv /\ ReplayInv /\ DurableInv /\ [Next]_vars => DurableInv'
<1> SUFFICES ASSUME TypeInv, ReplayInv, DurableInv, [Next]_vars PROVE DurableInv'
    OBVIOUS
<1>1. ASSUME SyncTick PROVE DurableInv'
    <2>0. /\ UNCHANGED <<dir, exposed, accepted, orphaned, activeName, proc, activeSeg, nextEntry>>
          /\ proc # "down" /\ activeSeg # "nil"
        BY <1>1 DEF SyncTick
    <2>1. /\ Wrote(buf \ buf') /\ buf' \subseteq buf
          /\ activeSeg = "open" /\ ~bufErr' => ~bufErr /\ torn' \subseteq torn
        <3>1. CASE bufErr /\ UNCHANGED <<buf, bufErr, lines, torn>>
            BY <3>1 DEF Wrote
        <3>2. CASE activeSeg = "open" /\ ~bufErr /\ Flush(buf) /\ UNCHANGED bufErr
            <4>1. buf \ buf' = buf
                BY <3>2 DEF Flush
            <4>2. QED BY <3>2, <4>1, WriteOutWrote DEF Flush
        <3>3. CASE ~bufErr /\ FlushFails(buf)
            BY <3>3, FlushFailsWrote DEF FlushFails
        <3>4. QED BY <1>1, <3>1, <3>2, <3>3 DEF SyncTick
    <2>2. CASE Sync(buf')
        BY <2>0, <2>1, <2>2, WriterKeepsDurableInv DEF Sync, DurableInv
    <2>3. CASE NoSync(buf \ buf')
        BY <2>0, <2>1, <2>3, WriterKeepsDurableInv DEF NoSync, DurableInv
    <2>4. QED BY <1>1, <2>2, <2>3 DEF SyncTick
<1>2. ASSUME SyncLoopStops PROVE DurableInv'
    BY <1>2 DEF SyncLoopStops, DurableInv, Held, Linked, diskVars, ackVars
<1>3. ASSUME Close PROVE DurableInv'
    <2>1. PICK rest \in SUBSET buf :
            /\ \/ rest = buf /\ UNCHANGED <<lines, torn>>
               \/ activeSeg = "open" /\ ~bufErr /\ rest = {} /\ WriteOut(buf)
               \/ activeSeg = "open" /\ ~bufErr /\ PartialWrite(buf, buf \ rest)
            /\ \/ /\ activeSeg = "open" /\ dirty' = {}
                  /\ durable' = durable \cup (pending \ rest)
               \/ dirty' = dirty \cup (buf \ rest) /\ UNCHANGED durable
        BY <1>3 DEF Close
    <2>2. Wrote(buf \ rest)
        <3>1. CASE rest = buf /\ UNCHANGED <<lines, torn>>
            BY <3>1 DEF Wrote
        <3>2. CASE activeSeg = "open" /\ ~bufErr /\ rest = {} /\ WriteOut(buf)
            <4>1. buf \ rest = buf
                BY <3>2
            <4>2. QED BY <3>2, <4>1, WriteOutWrote
        <3>3. CASE activeSeg = "open" /\ ~bufErr /\ PartialWrite(buf, buf \ rest)
            BY <3>3, PartialWriteWrote
        <3>4. QED BY <2>1, <3>1, <3>2, <3>3
    <2>3. /\ UNCHANGED <<dir, exposed, accepted, orphaned, activeName, nextEntry>>
          /\ proc' = "closed" /\ activeSeg' = "nil" /\ buf' = {} /\ pending' = {}
        BY <1>3 DEF Close
    <2>4. /\ dirty' \subseteq dirty \cup (buf \ rest)
          /\ durable' \subseteq durable \cup dirty \cup (buf \ rest)
          /\ activeSeg = "nil" => durable' = durable
          /\ dirty' \cap durable' = {}
          /\ \A e \in durable' : e < nextEntry
        BY <2>1 DEF DurableInv
    <2>5. QED BY <2>2, <2>3, <2>4, WriterKeepsDurableInv
<1>4. ASSUME Crash PROVE DurableInv'
    <2>1. PICK s \in SUBSET dirty :
            /\ lines' = IF orphaned \/ activeName = NoName THEN lines
                        ELSE [lines EXCEPT ![activeName] = @ \ (dirty \ s)]
            /\ \/ torn' = torn
               \/ activeSeg = "open" /\ ~orphaned /\ torn' = torn \cup {activeName}
        BY <1>4 DEF Crash
    <2>2. /\ activeSeg' = "nil" /\ buf' = {} /\ dirty' = {} /\ pending' = {}
          /\ UNCHANGED <<activeName, orphaned, dir, durable, accepted, exposed>>
          /\ nextEntry' = IF rotated THEN nextEntry + 1 ELSE nextEntry
        BY <1>4 DEF Crash
    <2>3. torn' \subseteq dir
        BY <2>1 DEF DurableInv
    <2>4. \A n \in SegNums : \A d \in lines[n] : d \in durable => d \in lines'[n]
        <3>1. dirty \cap durable = {} /\ lines \in [SegNums -> SUBSET Entries]
            BY DEF DurableInv, TypeInv, TypeOK
        <3>2. QED BY <2>1, <3>1
    <2>5. Held'
        <3>1. Held /\ dir \subseteq SegNums
            BY DEF DurableInv, TypeInv, TypeOK
        <3>2. durable \cap Linked \subseteq Linked'
            BY <2>2, <2>4, <3>1 DEF Linked
        <3>3. QED BY <2>2, <3>1, <3>2 DEF Held
    <2>6. \A d \in durable' : d < nextEntry'
        <3>1. durable \subseteq Nat /\ nextEntry \in Nat
            BY BoundsAssumption DEF TypeInv, TypeOK, Entries
        <3>2. \A d \in durable : d < nextEntry
            BY DEF DurableInv
        <3>3. QED BY <2>2, <3>1, <3>2
    <2>7. QED BY <2>2, <2>3, <2>5, <2>6 DEF DurableInv
<1>5. ASSUME Restart PROVE DurableInv'
    <2>1. /\ dir \subseteq dir' /\ ~orphaned' /\ proc' = "up"
          /\ dirty' = {} /\ buf' = {} /\ pending' = {}
          /\ UNCHANGED <<lines, torn, durable, nextEntry, accepted, exposed>>
        <3>1. dirty' = {} /\ buf' = {} /\ pending' = {}
            BY <1>5 DEF Restart, DurableInv, ackVars
        <3>2. dir \subseteq dir' /\ ~orphaned' /\ proc' = "up"
            BY <1>5 DEF Restart
        <3>3. UNCHANGED <<lines, torn, durable, nextEntry, accepted, exposed>>
            BY <1>5 DEF Restart, ackVars
        <3>4. QED BY <3>1, <3>2, <3>3
    <2>2. activeSeg' # "nil" => activeName' \in dir' /\ activeName' \notin torn
        BY <1>5, FreshSegment DEF Restart, ReusesLatest
    <2>3. Held'
        BY <2>1 DEF DurableInv, Held, Linked
    <2>4. QED BY <2>1, <2>2, <2>3 DEF DurableInv
<1>6. ASSUME NEW n \in SegNums, ReplayRemove(n) PROVE DurableInv'
    <2>1. torn' \subseteq dir'
        BY <1>6 DEF ReplayRemove, DurableInv
    <2>2. activeName = n /\ activeSeg # "nil" => activeName \in exposed
        BY <1>6 DEF ReplayRemove, First, ReplayInv
    <2>3. \A k \in SegNums : k # n => lines'[k] = lines[k]
        BY <1>6 DEF ReplayRemove, TypeInv, TypeOK
    <2>4. ASSUME activeSeg' # "nil", ~orphaned'
          PROVE  activeName \in dir' /\ dirty \subseteq lines'[activeName] /\ ~orphaned
        <3>1. CASE UNCHANGED <<dir, torn, lines, orphaned>>
            BY <1>6, <2>4, <3>1 DEF ReplayRemove, DurableInv
        <3>2. CASE /\ dir' = dir \ {n}
                   /\ orphaned' = (orphaned \/ (n = activeName /\ activeSeg # "nil"))
            <4>1. ~orphaned /\ n # activeName /\ activeSeg # "nil"
                BY <1>6, <2>4, <3>2 DEF ReplayRemove
            <4>2. QED BY <2>3, <3>2, <4>1 DEF DurableInv, TypeInv
        <3>3. QED BY <1>6, <3>1, <3>2 DEF ReplayRemove
    <2>5. Held'
        <3> SUFFICES ASSUME exposed = {} PROVE durable \subseteq accepted \cup Linked'
            BY <1>6 DEF Held, ReplayRemove, ackVars
        <3>1. lines[n] \subseteq accepted
            BY <1>6 DEF ReplayRemove, ReplayInv
        <3>2. Linked \subseteq Linked' \cup lines[n]
            BY <1>6, <2>3 DEF ReplayRemove, Linked, TypeInv, TypeOK
        <3>3. QED BY <3>1, <3>2 DEF DurableInv, Held
    <2>6. orphaned' => activeName' \in exposed'
        BY <1>6, <2>2 DEF ReplayRemove, DurableInv
    <2>7. activeSeg' = "open" /\ ~bufErr' /\ ~orphaned' => activeName' \notin torn'
        BY <1>6, <2>4 DEF ReplayRemove, DurableInv
    <2>8. QED BY <1>6, <2>1, <2>4, <2>5, <2>6, <2>7 DEF ReplayRemove, DurableInv, ackVars
<1>7. ASSUME Replay PROVE DurableInv'
    <2>1. ASSUME UNCHANGED <<diskVars, writerVars, ackVars>>,
                 accepted \subseteq accepted', exposed \subseteq exposed'
          PROVE  DurableInv'
        <3>1. Held'
            BY <2>1 DEF DurableInv, Held, Linked, diskVars, ackVars
        <3>2. QED BY <2>1, <3>1 DEF DurableInv, diskVars, writerVars, ackVars
    <2>2. CASE ReplayReadActive \/ ReplayReadDir \/ ReplayStops
        BY <2>1, <2>2 DEF ReplayReadActive, ReplayReadDir, ReplayStops
    <2>3. ASSUME NEW n \in SegNums, Scan(n) PROVE DurableInv'
        BY <2>1, <2>3 DEF Scan, ReplayAccept, ReplayReject, ReplayScanFails, ReplayEOF
    <2>4. QED BY <1>6, <1>7, <2>2, <2>3 DEF Replay
<1>8. ASSUME UNCHANGED vars PROVE DurableInv'
    BY <1>8 DEF vars, diskVars, writerVars, ackVars, DurableInv, Held, Linked
<1>9. QED
    BY <1>1, <1>2, <1>3, <1>4, <1>5, <1>7, <1>8, DurableWriteStep DEF Next

\* The configuration and the disk do not change.
LEMMA ModeStep == [Next]_vars => ioFaults' = ioFaults
BY DEF Next, vars, envVars, Write, Rotate, RotateFails, AppendEntry, AppendFails,
       SyncTick, SyncLoopStops, Close, Crash, Restart, Replay, Scan, ReplayAccept,
       ReplayReject, ReplayScanFails, ReplayEOF, ReplayRemove, ReplayStops,
       ReplayReadActive, ReplayReadDir

LEMMA DurableInit == Init => DurableInv
BY DEF Init, DurableInv, Held

\* While the directory can be read, an entry that Write acknowledged and an
\* fsync covered is never lost: not by a crash, a failed rotation, a torn line
\* or a replay, until a replay cycle lists the active segment.
THEOREM Durability == Spec => []DurableKept
<1> DEFINE Readable == "readdir" \notin ioFaults
           Inv == TypeInv /\ ReplayInv /\ (Readable => DurableInv)
<1>1. Init => Inv
    BY TypeInit, ReplayInit, DurableInit
<1>2. Inv /\ [Next]_vars => Inv'
    <2> SUFFICES ASSUME Inv, [Next]_vars PROVE Inv'
        OBVIOUS
    <2>1. TypeInv' /\ ReplayInv'
        BY TypeStep, ReplayStep
    <2>2. ioFaults' = ioFaults
        BY ModeStep
    <2>3. Readable => DurableInv'
        BY DurableStep
    <2>4. QED BY <2>1, <2>2, <2>3
<1>3. Inv => DurableKept
    BY DEF DurableInv, Held, DurableKept
<1>4. QED
    BY <1>1, <1>2, <1>3, PTL DEF Spec

-----------------------------------------------------------------------------
(* Replay in the order of writing *)

\* Segments are numbered in the order of their lines, the active one last.
SegmentsInOrder ==
    /\ \A n \in SegNums \ dir : lines[n] = {}
    /\ proc # "down" => \A k \in dir : k <= activeName
    /\ proc # "down" => activeName = NoName \/ activeName \in dir
    /\ \A k, n \in dir : k < n => \A x \in lines[k], y \in lines[n] : x < y

\* What is in the buffer is younger than every sealed line and every accepted
\* one, and the next Write's entry than everything.
BufferIsYoungest ==
    /\ \A n \in dir : n # activeName => \A x \in lines[n], y \in buf : x < y
    /\ \A x \in accepted, y \in buf : x < y
    /\ \A x \in Linked \cup buf \cup accepted : x < nextEntry

\* The list of a cycle leaves out no segment below one that is on it, unless all
\* of it is accepted (its removal has failed); and what is linked below an
\* accepted entry is accepted.
NoneSkipped ==
    /\ todo \subseteq dir
    /\ \A m \in todo, k \in dir \ todo : k < m => lines[k] \subseteq accepted
    /\ \A e \in accepted, d \in Linked : d < e => d \in accepted

OrderInv == exposed = {} => SegmentsInOrder /\ BufferIsYoungest /\ NoneSkipped

\* The active file gets lines from b, and b holds what was in the buffer and
\* perhaps the entry of the Write that ends.
ActiveGrows(b) ==
    /\ proc # "down" /\ OnlyActiveWritten
    /\ lines' = lines \/ (activeName \in dir /\ lines'[activeName] \subseteq lines[activeName] \cup b)
    /\ b \subseteq Entries /\ nextEntry' \in {nextEntry, nextEntry + 1}
    /\ \A y \in b : y \in buf \/ (y = nextEntry /\ nextEntry' = nextEntry + 1)

LEMMA AppendedGrows ==
    ASSUME TypeInv, DurableInv, activeSeg # "nil", ~orphaned, NEW s, lines' = Appended(activeName, s)
    PROVE  activeName \in dir /\ lines'[activeName] \subseteq lines[activeName] \cup s
<1>1. activeName \in dir /\ activeName \in SegNums
    BY DEF DurableInv, TypeInv, TypeOK
<1>2. lines \in [SegNums -> SUBSET Entries]
    BY DEF TypeInv, TypeOK
<1>3. QED BY <1>1, <1>2 DEF Appended

LEMMA WriteOutGrows ==
    ASSUME TypeInv, DurableInv, activeSeg # "nil", NEW s, WriteOut(s)
    PROVE  lines' = lines \/ (activeName \in dir /\ lines'[activeName] \subseteq lines[activeName] \cup s)
<1>1. lines' = lines \/ (~orphaned /\ lines' = Appended(activeName, s))
    BY DEF WriteOut
<1>2. QED BY <1>1, AppendedGrows

LEMMA PartialWriteGrows ==
    ASSUME TypeInv, DurableInv, activeSeg # "nil", NEW b, NEW s, PartialWrite(b, s)
    PROVE  lines' = lines \/ (activeName \in dir /\ lines'[activeName] \subseteq lines[activeName] \cup s)
<1>1. WriteOut(s) \/ (~orphaned /\ lines' = Appended(activeName, s))
    BY DEF PartialWrite
<1>2. QED BY <1>1, WriteOutGrows, AppendedGrows

LEMMA FlushFailsGrows ==
    ASSUME TypeInv, DurableInv, NEW b, FlushFails(b)
    PROVE  /\ lines' = lines \/ (activeName \in dir /\ lines'[activeName] \subseteq lines[activeName] \cup b)
           /\ buf' \subseteq b
<1>1. CASE activeSeg = "closed" /\ buf' = b /\ UNCHANGED <<lines, torn>>
    BY <1>1
<1>2. CASE activeSeg = "open" /\ \E s \in SUBSET b : PartialWrite(b, s) /\ buf' = b \ s
    <2>1. PICK s \in SUBSET b : PartialWrite(b, s) /\ buf' = b \ s
        BY <1>2
    <2>2. lines' = lines \/ (activeName \in dir /\ lines'[activeName] \subseteq lines[activeName] \cup s)
        BY <1>2, <2>1, PartialWriteGrows
    <2>3. QED BY <2>1, <2>2
<1>3. QED BY <1>1, <1>2 DEF FlushFails

\* Numbers of entries and segments.
LEMMA Numbers ==
    ASSUME TypeInv
    PROVE  /\ dir \subseteq Nat \ {0} /\ todo \subseteq Nat /\ activeName \in Nat
           /\ buf \subseteq Nat /\ accepted \subseteq Nat /\ nextEntry \in Nat /\ pos \in Nat
           /\ dir \subseteq SegNums
           /\ \A n \in SegNums : lines[n] \subseteq Nat
BY BoundsAssumption DEF TypeInv, TypeOK, Entries, SegNums

\* Lines from the buffer at the end of the active segment keep the segments in
\* order, and skip nothing.
LEMMA GrownInOrder ==
    ASSUME TypeInv, SegmentsInOrder, BufferIsYoungest, NoneSkipped, NEW b, ActiveGrows(b)
    PROVE  /\ \A n \in SegNums \ dir : lines'[n] = {}
           /\ \A k, n \in dir : k < n => \A x \in lines'[k], y \in lines'[n] : x < y
           /\ \A n \in dir : \A x \in lines'[n] : x < nextEntry'
           /\ \A m \in todo, k \in dir \ todo : k < m => lines'[k] \subseteq accepted
           /\ \A e \in accepted, n \in dir : \A d \in lines'[n] : d < e => d \in accepted
<1> USE Numbers
<1>1. ASSUME NEW n \in SegNums, n # activeName PROVE lines'[n] = lines[n]
    BY <1>1 DEF ActiveGrows, OnlyActiveWritten
<1>2. ASSUME NEW n \in dir
      PROVE  lines'[n] \subseteq lines[n] \cup IF n = activeName THEN b ELSE {}
    BY <1>1 DEF ActiveGrows
<1>3. b \subseteq Nat /\ \A n \in dir : lines[n] \subseteq Nat
    BY BoundsAssumption DEF ActiveGrows, Entries
<1>4. ASSUME NEW y \in b
      PROVE  /\ y < nextEntry' /\ \A x \in accepted : x < y
             /\ \A n \in dir : n # activeName => \A x \in lines[n] : x < y
    <2>1. CASE y \in buf
        BY <1>3, <2>1 DEF BufferIsYoungest, ActiveGrows
    <2>2. CASE y = nextEntry /\ nextEntry' = nextEntry + 1
        <3>1. \A n \in dir : \A x \in lines[n] : x < nextEntry
            BY DEF BufferIsYoungest, Linked
        <3>2. \A x \in accepted : x < nextEntry
            BY DEF BufferIsYoungest
        <3>3. QED BY <2>2, <3>1, <3>2
    <2>3. QED BY <2>1, <2>2 DEF ActiveGrows
<1>5. \A k \in dir : k <= activeName
    BY DEF ActiveGrows, SegmentsInOrder
<1>6. \A n \in SegNums \ dir : lines'[n] = {}
    BY <1>1 DEF ActiveGrows, SegmentsInOrder
<1>7. ASSUME NEW k \in dir, NEW n \in dir, k < n, NEW x \in lines'[k], NEW y \in lines'[n]
      PROVE  x < y
    <2>1. k # activeName
        BY <1>5, <1>7
    <2>2. x \in lines[k]
        BY <1>1, <1>7, <2>1
    <2>3. CASE y \in lines[n]
        BY <1>7, <2>2, <2>3 DEF SegmentsInOrder
    <2>4. CASE y \in b
        BY <1>4, <2>1, <2>2, <2>4
    <2>5. QED BY <1>2, <1>7, <2>3, <2>4
<1>8. ASSUME NEW n \in dir, NEW x \in lines'[n] PROVE x < nextEntry'
    <2>1. CASE x \in b
        BY <1>4, <2>1
    <2>2. CASE x \in lines[n]
        <3>1. x < nextEntry /\ x \in Nat
            BY <1>3, <2>2 DEF BufferIsYoungest, Linked
        <3>2. QED BY <3>1 DEF ActiveGrows
    <2>3. QED BY <1>2, <1>8, <2>1, <2>2
<1>9. ASSUME NEW m \in todo, NEW k \in dir \ todo, k < m PROVE lines'[k] \subseteq accepted
    <2>1. m <= activeName /\ k \in Nat /\ m \in Nat
        BY <1>5 DEF NoneSkipped
    <2>2. k # activeName
        BY <1>9, <2>1
    <2>3. QED BY <1>1, <1>9, <2>2 DEF NoneSkipped
<1>10. ASSUME NEW e \in accepted, NEW n \in dir, NEW d \in lines'[n], d < e PROVE d \in accepted
    <2>1. CASE d \in b
        <3>1. e < d /\ d \in Nat /\ e \in Nat
            BY <1>3, <1>4, <2>1
        <3>2. QED BY <1>10, <3>1
    <2>2. CASE d \in lines[n]
        BY <1>10, <2>2 DEF NoneSkipped, Linked
    <2>3. QED BY <1>2, <1>10, <2>1, <2>2
<1>11. QED BY <1>6, <1>7, <1>8, <1>9, <1>10

\* A step of the writer that stays in its segment.
LEMMA WriterKeepsOrder ==
    ASSUME TypeInv, OrderInv, NEW b, ActiveGrows(b), buf' \subseteq b,
           UNCHANGED <<dir, todo, accepted, exposed, activeName>>
    PROVE  OrderInv'
<1> SUFFICES ASSUME exposed = {} PROVE (SegmentsInOrder /\ BufferIsYoungest /\ NoneSkipped)'
    BY DEF OrderInv
<1> USE Numbers
<1>1. SegmentsInOrder /\ BufferIsYoungest /\ NoneSkipped
    BY DEF OrderInv
<1>2. SegmentsInOrder'
    BY <1>1, GrownInOrder DEF SegmentsInOrder, ActiveGrows
<1>3. NoneSkipped'
    <2>1. /\ \A m \in todo, k \in dir \ todo : k < m => lines'[k] \subseteq accepted
          /\ \A e \in accepted, n \in dir : \A d \in lines'[n] : d < e => d \in accepted
        BY <1>1, GrownInOrder
    <2>2. todo \subseteq dir
        BY <1>1 DEF NoneSkipped
    <2>3. \A e \in accepted, d \in Linked' : d < e => d \in accepted
        BY <2>1 DEF Linked
    <2>4. QED BY <2>1, <2>2, <2>3 DEF NoneSkipped
<1>4. ASSUME NEW n \in dir, n # activeName, NEW x \in lines'[n], NEW y \in buf' PROVE x < y
    <2>1. x \in lines[n]
        BY <1>4 DEF ActiveGrows, OnlyActiveWritten
    <2>2. QED BY <1>1, <1>4, <2>1 DEF BufferIsYoungest, ActiveGrows, Linked
<1>5. ASSUME NEW x \in accepted, NEW y \in buf' PROVE x < y
    BY <1>1, <1>5 DEF BufferIsYoungest, ActiveGrows
<1>6. \A x \in (Linked \cup buf \cup accepted)' : x < nextEntry'
    <2>1. \A x \in Linked' : x < nextEntry'
        BY <1>1, GrownInOrder DEF Linked
    <2>2. \A x \in buf' \cup accepted : x \in Nat /\ (x < nextEntry \/ x < nextEntry')
        BY <1>1, BoundsAssumption DEF BufferIsYoungest, ActiveGrows, Entries
    <2>3. nextEntry \in Nat /\ nextEntry' \in Nat /\ nextEntry <= nextEntry'
        BY DEF ActiveGrows
    <2>4. QED BY <2>1, <2>2, <2>3
<1>7. BufferIsYoungest'
    BY <1>4, <1>5, <1>6 DEF BufferIsYoungest
<1>8. QED BY <1>2, <1>3, <1>7

\* Each step of the writer keeps the order.
LEMMA OrderWriteStep ==
    ASSUME TypeInv, DurableInv, OrderInv, "readdir" \notin ioFaults, NEW e \in Entries, Write(e)
    PROVE  OrderInv'
<1>0. buf \subseteq Entries /\ proc # "down" /\ e = nextEntry
    BY DEF TypeInv, TypeOK, Write, Rotate, RotateFails, AppendEntry, AppendFails, WriteCalled
<1>1. ASSUME NEW n \in SegNums, Rotate(e, n) PROVE OrderInv'
    <2> SUFFICES ASSUME exposed' = {} PROVE (SegmentsInOrder /\ BufferIsYoungest /\ NoneSkipped)'
        BY DEF OrderInv
    <2> USE Numbers
    <2>0. /\ dir' = dir \cup {n} /\ activeName' = n /\ buf' = {} /\ nextEntry' = nextEntry
          /\ UNCHANGED <<todo, accepted>> /\ exposed = {}
        BY <1>1 DEF Rotate, Flush, replayVars
    <2>1. SegmentsInOrder /\ BufferIsYoungest /\ NoneSkipped
        BY <2>0 DEF OrderInv
    <2>2. ActiveGrows(buf)
        <3>1. OnlyActiveWritten
            BY <1>1, WriteOutLocal DEF Rotate, Flush
        <3>2. \/ lines' = lines
              \/ activeName \in dir /\ lines'[activeName] \subseteq lines[activeName] \cup buf
            <4>1. CASE activeSeg = "nil"
                BY <1>1, <4>1 DEF Rotate, Flush, WriteOut, DurableInv
            <4>2. CASE activeSeg # "nil"
                BY <1>1, <4>2, WriteOutGrows DEF Rotate, Flush
            <4>3. QED BY <4>1, <4>2
        <3>3. QED BY <1>0, <2>0, <3>1, <3>2 DEF ActiveGrows
    <2>3. /\ n \in Nat /\ \A k \in dir : k < n
          /\ n \notin dir
        <3>1. nextSegmentNum(n)
            BY <1>1 DEF Rotate
        <3>2. \A k \in dir : k < n
            BY <3>1 DEF nextSegmentNum
        <3>3. n \in Nat
            BY DEF SegNums
        <3>4. QED BY <3>2, <3>3
    <2>4. lines'[n] = {}
        BY <2>1, <2>2, <2>3, GrownInOrder
    <2>5. SegmentsInOrder'
        <3>1. ASSUME NEW j \in dir', NEW k \in dir', j < k, NEW x \in lines'[j], NEW y \in lines'[k]
              PROVE  x < y
            <4>1. j \in dir /\ k \in dir
                BY <2>0, <2>4, <3>1
            <4>2. QED BY <2>1, <2>2, <3>1, <4>1, GrownInOrder
        <3>2. \A k \in SegNums \ dir' : lines'[k] = {}
            BY <2>0, <2>1, <2>2, GrownInOrder
        <3>3. \A k \in dir' : k <= activeName'
            BY <2>0, <2>3
        <3>4. QED BY <2>0, <3>1, <3>2, <3>3 DEF SegmentsInOrder
    <2>6. Linked' = UNION {lines'[k] : k \in dir}
        BY <2>0, <2>4 DEF Linked
    <2>7. BufferIsYoungest'
        <3>1. \A x \in Linked' : x < nextEntry'
            BY <2>1, <2>2, <2>6, GrownInOrder
        <3>2. \A x \in accepted : x < nextEntry
            BY <2>1 DEF BufferIsYoungest
        <3>3. QED BY <2>0, <3>1, <3>2 DEF BufferIsYoungest
    <2>8. NoneSkipped'
        <3>1. \A d \in accepted, x \in Linked' : x < d => x \in accepted
            BY <2>1, <2>2, <2>6, GrownInOrder
        <3>2. ASSUME NEW m \in todo, NEW k \in dir' \ todo, k < m PROVE lines'[k] \subseteq accepted
            BY <2>0, <2>1, <2>2, <2>4, <3>2, GrownInOrder
        <3>3. todo \subseteq dir'
            BY <2>0, <2>1 DEF NoneSkipped
        <3>4. QED BY <2>0, <3>1, <3>2, <3>3 DEF NoneSkipped
    <2>9. QED BY <2>5, <2>7, <2>8
<1>2. ASSUME RotateFails(e) PROVE OrderInv'
    <2>1. /\ UNCHANGED <<dir, todo, accepted, exposed, activeName>>
          /\ nextEntry' = nextEntry + 1
        BY <1>2 DEF RotateFails, replayVars
    <2>2. OnlyActiveWritten
        BY <1>2, WriteOutLocal, FlushFailsLocal DEF RotateFails, Flush, OnlyActiveWritten
    <2>3. /\ \/ lines' = lines
             \/ activeName \in dir /\ lines'[activeName] \subseteq lines[activeName] \cup buf
          /\ buf' \subseteq buf
        <3>1. CASE UNCHANGED <<buf, lines>>
            BY <3>1
        <3>2. CASE FlushFails(buf)
            BY <3>2, FlushFailsGrows
        <3>3. CASE Flush(buf) /\ activeSeg # "nil"
            BY <3>3, WriteOutGrows DEF Flush
        <3>4. CASE Flush(buf) /\ activeSeg = "nil"
            BY <3>4 DEF Flush, WriteOut, DurableInv
        <3>5. QED BY <1>2, <3>1, <3>2, <3>3, <3>4 DEF RotateFails
    <2>4. ActiveGrows(buf)
        BY <1>0, <2>1, <2>2, <2>3 DEF ActiveGrows
    <2>5. QED BY <2>1, <2>3, <2>4, WriterKeepsOrder
<1>3. ASSUME AppendEntry(e) \/ AppendFails(e) PROVE OrderInv'
    <2>1. /\ UNCHANGED <<dir, todo, accepted, exposed, activeName>>
          /\ nextEntry' = nextEntry + 1 /\ activeSeg # "nil"
        BY <1>3 DEF AppendEntry, AppendFails, NeedsRotate, replayVars, TypeInv
    <2>2. OnlyActiveWritten
        BY <1>3, WriteOutLocal, FlushFailsLocal DEF AppendEntry, AppendFails, Flush, OnlyActiveWritten
    <2>3. /\ \/ lines' = lines
             \/ activeName \in dir /\ lines'[activeName] \subseteq lines[activeName] \cup (buf \cup {e})
          /\ buf' \subseteq buf \cup {e}
        <3>1. CASE UNCHANGED <<buf, lines>>
            BY <3>1
        <3>2. CASE FlushFails(buf \cup {e})
            BY <3>2, FlushFailsGrows
        <3>3. ASSUME NEW s, s \subseteq buf \cup {e}, WriteOut(s), buf' \subseteq buf \cup {e}
              PROVE  \/ lines' = lines
                     \/ /\ activeName \in dir
                        /\ lines'[activeName] \subseteq lines[activeName] \cup (buf \cup {e})
            BY <2>1, <3>3, WriteOutGrows
        <3>4. QED BY <1>3, <3>1, <3>2, <3>3 DEF AppendEntry, AppendFails, Flush
    <2>4. ActiveGrows(buf \cup {e})
        BY <1>0, <2>1, <2>2, <2>3 DEF ActiveGrows
    <2>5. QED BY <2>1, <2>3, <2>4, WriterKeepsOrder
<1>4. QED BY <1>1, <1>2, <1>3 DEF Write

\* Each step of the replay goroutine keeps the order.
LEMMA OrderReplayStep ==
    ASSUME TypeInv, ReplayInv, OrderInv, Replay PROVE OrderInv'
<1> SUFFICES ASSUME exposed' = {} PROVE (SegmentsInOrder /\ BufferIsYoungest /\ NoneSkipped)'
    BY DEF OrderInv
<1> USE Numbers
<1>0. exposed = {} /\ SegmentsInOrder /\ BufferIsYoungest /\ NoneSkipped
    BY DEF OrderInv, Replay, Scan, ReplayReadActive, ReplayReadDir, ReplayStops, ReplayAccept,
           ReplayReject, ReplayScanFails, ReplayEOF, ReplayRemove
<1>a. ASSUME UNCHANGED <<dir, lines, activeName, buf, proc, nextEntry>> PROVE SegmentsInOrder'
    BY <1>0, <1>a DEF SegmentsInOrder
<1>b. ASSUME UNCHANGED <<dir, lines, activeName, buf, nextEntry, accepted>> PROVE BufferIsYoungest'
    BY <1>0, <1>b DEF BufferIsYoungest, Linked
<1>c. ASSUME UNCHANGED <<dir, lines, accepted>>, todo' = todo \/ todo' = {} PROVE NoneSkipped'
    BY <1>0, <1>c DEF NoneSkipped, Linked
<1>1. CASE ReplayReadActive \/ ReplayStops
    BY <1>1, <1>a, <1>b, <1>c DEF ReplayReadActive, ReplayStops, diskVars, writerVars, ackVars
<1>2. CASE ReplayReadDir
    <2>1. UNCHANGED <<dir, lines, activeName, buf, proc, nextEntry, accepted>>
        BY <1>2 DEF ReplayReadDir, diskVars, writerVars, ackVars
    <2>2. CASE UNCHANGED todo
        BY <1>a, <1>b, <1>c, <2>1, <2>2
    <2>3. CASE todo' = dir \ {saw} /\ exposed' = exposed \cup ({activeName} \cap todo')
        <3>1. proc # "down"
            BY <1>2 DEF ReplayReadDir, ReplayInv
        <3>2. activeName \notin todo' /\ \A k \in dir : k <= activeName
            BY <1>0, <2>3, <3>1 DEF SegmentsInOrder
        <3>3. ASSUME NEW m \in todo', NEW k \in dir \ todo' PROVE ~(k < m)
            <4>1. m \in dir /\ m <= activeName /\ activeName # NoName
                BY <2>3, <3>2
            <4>2. k = saw /\ activeName \in dir
                BY <1>0, <2>3, <3>1, <3>3, <4>1 DEF SegmentsInOrder
            <4>3. k = activeName
                BY <2>3, <3>2, <4>2
            <4>4. QED BY <4>1, <4>3
        <3>4. NoneSkipped'
            BY <1>0, <2>1, <2>3, <3>3 DEF NoneSkipped, Linked
        <3>5. QED BY <1>a, <1>b, <2>1, <3>4
    <2>4. QED BY <1>2, <2>2, <2>3 DEF ReplayReadDir
<1>3. ASSUME NEW n \in SegNums, NEW e \in Entries, ReplayAccept(n, e)
      PROVE  (SegmentsInOrder /\ BufferIsYoungest /\ NoneSkipped)'
    <2>1. /\ UNCHANGED <<dir, lines, activeName, buf, proc, nextEntry, todo>>
          /\ accepted' = accepted \cup {e} /\ rpc = "scan" /\ First(n, todo)
          /\ e \in lines[n] /\ e > pos /\ \A d \in lines[n] : d > pos => e <= d
        BY <1>3 DEF ReplayAccept, First, Unscanned, diskVars, writerVars, ackVars
    <2>2. n \in todo /\ n \in dir /\ n # activeName /\ e \in Nat
        BY <1>0, <2>1 DEF First, NoneSkipped, ReplayInv
    <2>3. \A d \in lines[n] : d < e => d \in accepted
        <3>1. \A d \in lines[n] : d <= pos => d \in accepted
            BY <1>0, <2>1 DEF ReplayInv
        <3>2. \A d \in lines[n] : d < e => d <= pos
            <4>1. lines[n] \subseteq Nat /\ pos \in Nat /\ e \in Nat
                BY <2>2
            <4>2. \A d \in lines[n] : d > pos => e <= d
                BY <2>1
            <4>3. QED BY <4>1, <4>2
        <3>3. QED BY <3>1, <3>2
    <2>4. ASSUME NEW k \in dir, NEW d \in lines[k], d < e PROVE d \in accepted
        <3>1. CASE k = n
            BY <2>3, <2>4, <3>1
        <3>2. CASE k < n
            <4>1. k \notin todo
                <5>1. \A m \in todo : n <= m
                    BY <2>1 DEF First
                <5>2. k \in Nat /\ n \in Nat
                    BY <2>2
                <5>3. QED BY <3>2, <5>1, <5>2
            <4>2. lines[k] \subseteq accepted
                BY <1>0, <2>2, <3>2, <4>1 DEF NoneSkipped
            <4>3. QED BY <4>2, <2>4
        <3>3. CASE n < k
            <4>1. e < d
                BY <1>0, <2>1, <2>2, <3>3 DEF SegmentsInOrder
            <4>2. d \in Nat
                OBVIOUS
            <4>3. QED BY <2>2, <2>4, <4>1, <4>2
        <3>4. QED BY <2>2, <3>1, <3>2, <3>3
    <2>5. NoneSkipped'
        <3>1. \A x \in accepted', d \in Linked : d < x => d \in accepted'
            <4>1. \A x \in accepted, d \in Linked : d < x => d \in accepted
                BY <1>0 DEF NoneSkipped
            <4>2. \A d \in Linked : d < e => d \in accepted
                BY <2>4 DEF Linked
            <4>3. QED BY <2>1, <4>1, <4>2
        <3>2. Linked' = Linked
            BY <2>1 DEF Linked
        <3>3. QED BY <1>0, <2>1, <3>1, <3>2 DEF NoneSkipped
    <2>6. BufferIsYoungest'
        <3>1. \A y \in buf : e < y
            BY <1>0, <2>1, <2>2 DEF BufferIsYoungest
        <3>2. e < nextEntry
            BY <1>0, <2>1, <2>2 DEF BufferIsYoungest, Linked
        <3>3. Linked' = Linked
            BY <2>1 DEF Linked
        <3>4. QED BY <1>0, <2>1, <3>1, <3>2, <3>3 DEF BufferIsYoungest
    <2>7. QED BY <1>a, <2>1, <2>5, <2>6
<1>4. ASSUME NEW n \in SegNums, NEW e \in Entries, ReplayReject(n, e)
      PROVE  (SegmentsInOrder /\ BufferIsYoungest /\ NoneSkipped)'
    BY <1>4, <1>a, <1>b, <1>c DEF ReplayReject, EndCycle, diskVars, writerVars, ackVars
<1>5. ASSUME NEW n \in SegNums, ReplayScanFails(n) \/ ReplayEOF(n)
      PROVE  (SegmentsInOrder /\ BufferIsYoungest /\ NoneSkipped)'
    BY <1>5, <1>a, <1>b, <1>c
    DEF ReplayScanFails, ReplayEOF, EndCycle, diskVars, writerVars, ackVars
<1>6. ASSUME NEW n \in SegNums, ReplayRemove(n)
      PROVE  (SegmentsInOrder /\ BufferIsYoungest /\ NoneSkipped)'
    <2>1. /\ UNCHANGED <<activeName, buf, proc, nextEntry, accepted>>
          /\ todo' = todo \ {n} /\ rpc = "remove" /\ First(n, todo)
        BY <1>6 DEF ReplayRemove, ackVars
    <2>2. n \in todo /\ n \in dir /\ n # activeName /\ lines[n] \subseteq accepted
        BY <1>0, <2>1 DEF First, NoneSkipped, ReplayInv
    <2>3. CASE UNCHANGED <<dir, lines>>
        <3>1. NoneSkipped'
            BY <1>0, <2>1, <2>2, <2>3 DEF NoneSkipped, Linked
        <3>2. QED BY <1>a, <1>b, <2>1, <2>3, <3>1
    <2>4. CASE dir' = dir \ {n} /\ lines' = [lines EXCEPT ![n] = {}]
        <3>1. lines'[n] = {} /\ \A k \in SegNums : k # n => lines'[k] = lines[k]
            BY <2>4 DEF TypeInv, TypeOK
        <3>2. Linked' \subseteq Linked
            BY <2>4, <3>1 DEF Linked
        <3>3. SegmentsInOrder'
            BY <1>0, <2>1, <2>2, <2>4, <3>1 DEF SegmentsInOrder
        <3>4. BufferIsYoungest'
            BY <1>0, <2>1, <2>4, <3>1, <3>2 DEF BufferIsYoungest
        <3>5. NoneSkipped'
            BY <1>0, <2>1, <2>4, <3>1, <3>2 DEF NoneSkipped
        <3>6. QED BY <3>3, <3>4, <3>5
    <2>5. QED BY <1>6, <2>3, <2>4 DEF ReplayRemove
<1>7. QED BY <1>1, <1>2, <1>3, <1>4, <1>5, <1>6 DEF Replay, Scan

\* Each step of the log keeps the order.
LEMMA OrderStep ==
    ASSUME "readdir" \notin ioFaults
    PROVE  TypeInv /\ ReplayInv /\ DurableInv /\ OrderInv /\ [Next]_vars => OrderInv'
<1> SUFFICES ASSUME TypeInv, ReplayInv, DurableInv, OrderInv, [Next]_vars PROVE OrderInv'
    OBVIOUS
<1> USE Numbers
<1>1. ASSUME UNCHANGED <<dir, lines, activeName, todo, accepted, exposed>>,
             proc' # "down" => proc # "down", buf' \subseteq buf, nextEntry' \in {nextEntry, nextEntry + 1}
      PROVE  OrderInv'
    <2> SUFFICES ASSUME exposed = {} PROVE (SegmentsInOrder /\ BufferIsYoungest /\ NoneSkipped)'
        BY <1>1 DEF OrderInv
    <2>1. SegmentsInOrder /\ BufferIsYoungest /\ NoneSkipped
        BY DEF OrderInv
    <2>2. SegmentsInOrder' /\ NoneSkipped'
        BY <1>1, <2>1 DEF SegmentsInOrder, NoneSkipped, Linked
    <2>3. \A x \in Linked \cup buf \cup accepted : x < nextEntry'
        <3>1. \A x \in Linked \cup buf \cup accepted : x \in Nat /\ x < nextEntry
            BY <2>1 DEF BufferIsYoungest, Linked
        <3>2. QED BY <1>1, <3>1
    <2>4. BufferIsYoungest'
        BY <1>1, <2>1, <2>3 DEF BufferIsYoungest, Linked
    <2>5. QED BY <2>2, <2>4
<1>2. CASE SyncTick
    <2>1. /\ UNCHANGED <<dir, todo, accepted, exposed, activeName, nextEntry>>
          /\ proc # "down" /\ activeSeg # "nil"
        BY <1>2 DEF SyncTick, replayVars
    <2>2. OnlyActiveWritten
        BY <1>2, WriteOutLocal, FlushFailsLocal DEF SyncTick, Flush, OnlyActiveWritten
    <2>3. /\ \/ lines' = lines
             \/ activeName \in dir /\ lines'[activeName] \subseteq lines[activeName] \cup buf
          /\ buf' \subseteq buf
        BY <1>2, <2>1, WriteOutGrows, FlushFailsGrows DEF SyncTick, Flush
    <2>4. ActiveGrows(buf)
        BY <2>1, <2>2, <2>3 DEF ActiveGrows, TypeInv, TypeOK
    <2>5. QED BY <2>1, <2>3, <2>4, WriterKeepsOrder
<1>3. CASE SyncLoopStops
    BY <1>1, <1>3 DEF SyncLoopStops, diskVars, replayVars, ackVars
<1>4. CASE Close
    <2>1. /\ UNCHANGED <<dir, todo, accepted, exposed, activeName, nextEntry>>
          /\ proc # "down" /\ buf' = {}
        BY <1>4 DEF Close, replayVars
    <2>2. OnlyActiveWritten
        BY <1>4, WriteOutLocal, PartialWriteLocal DEF Close, OnlyActiveWritten
    <2>3. \/ lines' = lines
          \/ activeName \in dir /\ lines'[activeName] \subseteq lines[activeName] \cup buf
        <3>1. PICK rest \in SUBSET buf :
                \/ UNCHANGED <<lines, torn>>
                \/ activeSeg = "open" /\ WriteOut(buf)
                \/ activeSeg = "open" /\ PartialWrite(buf, buf \ rest)
            BY <1>4 DEF Close
        <3>2. CASE activeSeg = "open" /\ PartialWrite(buf, buf \ rest)
            <4>1. \/ lines' = lines
                  \/ /\ activeName \in dir
                     /\ lines'[activeName] \subseteq lines[activeName] \cup (buf \ rest)
                BY <3>2, PartialWriteGrows
            <4>2. QED BY <4>1
        <3>3. QED BY <3>1, <3>2, WriteOutGrows
    <2>4. ActiveGrows(buf)
        BY <2>1, <2>2, <2>3 DEF ActiveGrows, TypeInv, TypeOK
    <2>5. QED BY <2>1, <2>4, WriterKeepsOrder
<1>5. CASE Crash
    <2> SUFFICES ASSUME exposed = {} PROVE (SegmentsInOrder /\ BufferIsYoungest /\ NoneSkipped)'
        BY <1>5 DEF OrderInv, Crash
    <2>1. SegmentsInOrder /\ BufferIsYoungest /\ NoneSkipped
        BY DEF OrderInv
    <2>2. /\ UNCHANGED <<dir, accepted>> /\ buf' = {} /\ todo' = {} /\ proc' = "down"
          /\ nextEntry' \in {nextEntry, nextEntry + 1}
        BY <1>5 DEF Crash
    <2>3. \A n \in SegNums : lines'[n] \subseteq lines[n]
        BY <1>5 DEF Crash, TypeInv, TypeOK
    <2>4. Linked' \subseteq Linked
        BY <2>2, <2>3 DEF Linked
    <2>5. SegmentsInOrder'
        BY <2>1, <2>2, <2>3 DEF SegmentsInOrder
    <2>6. NoneSkipped'
        BY <2>1, <2>2, <2>4 DEF NoneSkipped
    <2>7. \A x \in Linked \cup accepted : x < nextEntry'
        <3>1. \A x \in Linked \cup accepted : x \in Nat /\ x < nextEntry
            BY <2>1 DEF BufferIsYoungest, Linked
        <3>2. QED BY <2>2, <3>1
    <2>8. BufferIsYoungest'
        BY <2>2, <2>4, <2>7 DEF BufferIsYoungest
    <2>9. QED BY <2>5, <2>6, <2>8
<1>6. CASE Restart
    <2> SUFFICES ASSUME exposed = {} PROVE (SegmentsInOrder /\ BufferIsYoungest /\ NoneSkipped)'
        BY <1>6 DEF OrderInv, Restart
    <2>1. SegmentsInOrder /\ BufferIsYoungest /\ NoneSkipped
        BY DEF OrderInv
    <2>2. UNCHANGED <<lines, accepted, todo, buf, nextEntry>> /\ todo = {} /\ buf = {}
        BY <1>6 DEF Restart, ackVars, ReplayInv, DurableInv
    <2>3. \/ dir' = dir /\ activeName' = NoName /\ dir = {}
          \/ dir' = dir /\ activeName' \in dir /\ \A k \in dir : k <= activeName'
          \/ \E n \in SegNums : nextSegmentNum(n) /\ activeName' = n /\ dir' = dir \cup {n}
        BY <1>6 DEF Restart
    <2>4. /\ dir \subseteq dir' /\ (activeName' = NoName \/ activeName' \in dir')
          /\ \A k \in dir' : k <= activeName'
          /\ \A k \in dir' \ dir : lines[k] = {}
        <3>1. CASE dir' = dir /\ activeName' = NoName /\ dir = {}
            BY <3>1
        <3>2. CASE dir' = dir /\ activeName' \in dir /\ \A k \in dir : k <= activeName'
            BY <3>2
        <3>3. ASSUME NEW n \in SegNums, nextSegmentNum(n), activeName' = n, dir' = dir \cup {n}
              PROVE  /\ n \in dir' /\ \A k \in dir' : k <= n
                     /\ \A k \in dir' \ dir : lines[k] = {}
            <4>1. n \in Nat /\ \A k \in dir : k < n
                BY <3>3 DEF nextSegmentNum, SegNums
            <4>2. n \notin dir
                BY <4>1
            <4>3. lines[n] = {}
                BY <2>1, <4>2 DEF SegmentsInOrder
            <4>4. \A k \in dir' : k <= n
                BY <3>3, <4>1
            <4>5. QED BY <3>3, <4>3, <4>4
        <3>4. QED BY <2>3, <3>1, <3>2, <3>3
    <2>5. Linked' = Linked
        BY <2>2, <2>4 DEF Linked
    <2>6. SegmentsInOrder'
        <3>1. \A j, k \in dir' : j < k => \A x \in lines[j], y \in lines[k] : x < y
            BY <2>1, <2>4 DEF SegmentsInOrder
        <3>2. \A k \in SegNums \ dir' : lines[k] = {}
            BY <2>1, <2>4 DEF SegmentsInOrder
        <3>3. QED BY <2>2, <2>4, <3>1, <3>2 DEF SegmentsInOrder
    <2>7. BufferIsYoungest' /\ NoneSkipped'
        BY <2>1, <2>2, <2>5 DEF BufferIsYoungest, NoneSkipped
    <2>8. QED BY <2>6, <2>7
<1>7. CASE UNCHANGED vars
    BY <1>1, <1>7 DEF vars, diskVars, writerVars, replayVars, ackVars
<1>8. QED
    BY <1>2, <1>3, <1>4, <1>5, <1>6, <1>7, OrderWriteStep, OrderReplayStep DEF Next

LEMMA OrderInit == Init => OrderInv
BY DEF Init, OrderInv, SegmentsInOrder, BufferIsYoungest, NoneSkipped, Linked

\* The replay goroutine hands entries over in the order they were written
\* (nextSegmentNum, replaySealedSegments): while the directory can be read and
\* until a cycle lists the active segment, no durable entry is overtaken by a
\* later one, for any number of segments, rejections, failed removals, crashes
\* and restarts.
THEOREM ReplayOrder == Spec => []ReplayInOrder
<1> DEFINE Readable == "readdir" \notin ioFaults
           Inv == TypeInv /\ ReplayInv /\ (Readable => DurableInv /\ OrderInv)
<1>1. Init => Inv
    BY TypeInit, ReplayInit, DurableInit, OrderInit
<1>2. Inv /\ [Next]_vars => Inv'
    <2> SUFFICES ASSUME Inv, [Next]_vars PROVE Inv'
        OBVIOUS
    <2>1. TypeInv' /\ ReplayInv'
        BY TypeStep, ReplayStep
    <2>2. ioFaults' = ioFaults
        BY ModeStep
    <2>3. Readable => DurableInv' /\ OrderInv'
        BY DurableStep, OrderStep
    <2>4. QED BY <2>1, <2>2, <2>3
<1>3. Inv => ReplayInOrder
    BY DEF DurableInv, Held, OrderInv, NoneSkipped, ReplayInOrder
<1>4. QED
    BY <1>1, <1>2, <1>3, PTL DEF Spec

=============================================================================
