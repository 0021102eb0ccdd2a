------------------------------ MODULE BlockDB ------------------------------
(***************************************************************************)
(* The block files, ledger/chain/block and ledger/chain/file_manager.      *)
(*                                                                         *)
(* All the blocks of the ledger are appended to files of a fixed size; a   *)
(* block may cross the end of a file.  Writes and rollbacks change buffers *)
(* in memory.  As one of the stores of the flusher, the block database     *)
(* copies what was appended since the last flush in Prepare and writes     *)
(* that copy to the files in Commit, while the chain goes on writing to    *)
(* and rolling back the buffers.                                           *)
(*                                                                         *)
(* The flusher appears at the grain DurableLedger gives it: between        *)
(* SyncRedoLog and the end of the flush a crash is followed by Recover,    *)
(* which replays the redo log.  Bytes are units, each block has its own.   *)
(***************************************************************************)
EXTENDS Naturals, Sequences, FiniteSets
LOCAL INSTANCE SequencesExt
LOCAL INSTANCE FiniteSetsExt

CONSTANTS FileSize,      \* units in a file
          CacheLength,   \* fdManager.fileCacheLength
          Sizes,         \* sizes of blocks
          None,          \* nil; a hole in a file
          MaxBlocks,     \* bound: blocks written in a behaviour
          MaxRollbacks, MaxFlushes, MaxFaults

ASSUME BlockDBAssumption ==
    /\ {FileSize, CacheLength, MaxBlocks} \subseteq Nat \ {0}
    /\ Sizes \subseteq Nat \ {0} /\ Sizes # {}
    /\ {MaxRollbacks, MaxFlushes, MaxFaults} \subseteq Nat

VARIABLES
    chain,      \* the blocks of the ledger, with the locations the index keeps
    disk,       \* the files: contents by file id
    cache,      \* fileCache: the buffered files, oldest first; the last one is writeFd
    nextFlushStart, prevFlush,   \* FileManager.nextFlushStartLocation, prevFlushLocation
    pc,         \* of the flush, or of the recovery
    mode,       \* who calls FileManager.Flush: "commit", "redo" or "recover"
    flush,      \* flushStartLocation, flushTargetLocation, flushBuf, or None
    at, fd,     \* in FileManager.Flush: flushLocation and the descriptor it has got
    redoLog,    \* the record of the block database in the flagged redo log, or None
    deleting,   \* the chain after a rollback: it waits for a flush of its own
    prepared, durable,           \* history: chain at the last Prepare, at the last synced one
    written, rollbacks, flushes, faults   \* bounds

fmVars    == <<disk, cache, nextFlushStart, prevFlush>>
flushVars == <<pc, mode, flush, at, fd, redoLog, deleting>>
histVars  == <<prepared, durable>>
boundVars == <<written, rollbacks, flushes, faults>>
vars == <<chain, fmVars, flushVars, histVars, boundVars>>

Location(file, offset) == [file |-> file, offset |-> offset]

\* Location.Compare(m) < 0.
Before(l, m) == l.file < m.file \/ (l.file = m.file /\ l.offset < m.offset)
Lower(l, m) == IF Before(m, l) THEN m ELSE l

\* A block: its units, and the location Write returned.
Units(b) == [i \in 1 .. b.size |-> <<b.id, i>>]
Bytes(blocks) == FlattenSeq([i \in DOMAIN blocks |-> Units(blocks[i])])

\* A fileCacheItem: Buffer[:BufferLen], and whether FileWriter is open.
Item(file, buf, writer) == [file |-> file, buf |-> buf, writer |-> writer]

LatestLocation == Location(Last(cache).file, Len(Last(cache).buf))
IsCached(file) == \E i \in DOMAIN cache : cache[i].file = file
Cached(file) == CHOOSE item \in ToSet(cache) : item.file = file

Running == pc \notin {"before", "stuck"} /\ mode # "recover"
ChainIsFree == Running /\ deleting = "no"
-----------------------------------------------------------------------------
(***************************************************************************)
(* Reading, FileManager.ReadRaw: from the buffer, else from the file.      *)
(***************************************************************************)
Contents(file) ==
    IF IsCached(file) THEN Cached(file).buf
    ELSE IF file \in DOMAIN disk THEN disk[file] ELSE <<>>

\* n units from location l on; None where there is nothing to read.
ReadRaw(l, n) ==
    [i \in 1 .. n |->
        LET p == l.offset + i - 1
            file == l.file + p \div FileSize
            offset == p % FileSize
        IN  IF file > Last(cache).file \/ offset >= Len(Contents(file)) THEN None
            ELSE Contents(file)[offset + 1]]

Distance(l, m) == (m.file - l.file) * FileSize + m.offset - l.offset

\* GetNextLocation: where the block after b starts.
GetNextLocation(b) ==
    LET offset == b.loc.offset + b.size
    IN  Location(b.loc.file + offset \div FileSize, offset % FileSize)
-----------------------------------------------------------------------------
(***************************************************************************)
(* Writing, FileManager.Write: fill the last buffer, go on in the next.    *)
(***************************************************************************)
\* The number of buffers resetWriteFd takes from the front of the cache c for a
\* new one: of files before the next flush, as far as c is too long.
Stale(c, start) ==
    LET old == Cardinality({i \in DOMAIN c : c[i].file < start.file})
    IN  IF Len(c) < CacheLength THEN 0 ELSE Min({old, Len(c) - CacheLength + 1})

\* CreateNextFd.  w.cache is the cache, w.reused the files whose buffer now holds
\* another file: the last buffer taken, when that is enough to make room.
CreateNextFd(w, start) ==
    LET c == w.cache
        n == Stale(c, start)
    IN  [cache  |-> Append(SubSeq(c, n + 1, Len(c)), Item(Last(c).file + 1, <<>>, FALSE)),
         reused |-> w.reused \cup IF n > 0 /\ n = Len(c) - CacheLength + 1
                                  THEN {c[n].file} ELSE {}]

\* Mutant: one unit too many fits in a file.
WriteOverfull(c, units, start) ==
    LET WriteUnit(w, unit) ==
            LET v == IF Len(Last(w.cache).buf) <= FileSize THEN w ELSE CreateNextFd(w, start)
            IN  [v EXCEPT !.cache[Len(v.cache)].buf = Append(@, unit)]
    IN  FoldLeft(WriteUnit, [cache |-> c, reused |-> {}], units)

\* The buffers c after units are written, when the next flush is from start.
Write(c, units, start) ==
    LET WriteUnit(w, unit) ==
            LET v == IF Len(Last(w.cache).buf) < FileSize THEN w ELSE CreateNextFd(w, start)
            IN  [v EXCEPT !.cache[Len(v.cache)].buf = Append(@, unit)]
    IN  FoldLeft(WriteUnit, [cache |-> c, reused |-> {}], units)

\* The descriptor the flush holds, when the buffers become c: one whose buffer was
\* deleted or used again fails, one only removed from the cache can be written.
FdAfter(c, gone) ==
    IF fd.kind # "item" \/ \E i \in DOMAIN c : c[i].file = at.file THEN fd
    ELSE [fd EXCEPT !.kind = IF at.file \in gone THEN "stale" ELSE "tmp"]
-----------------------------------------------------------------------------
(***************************************************************************)
(* FileManager.DeleteTo.                                                   *)
(***************************************************************************)
\* One buffer is taken from the end of the list for every file after l, whether
\* or not the list is that long.
Surplus(l) == Last(cache).file - l.file
OutOfBuffers(l) == Before(l, LatestLocation) /\ Surplus(l) > Len(cache)

\* resetWriteFd: the buffer of l's file, or one read from the file.
CacheTo(l) ==
    LET rest == SubSeq(cache, 1, Len(cache) - Surplus(l))
        left == IF l.file \in DOMAIN disk THEN disk[l.file] ELSE <<>>
    IN  IF rest = <<>> THEN <<Item(l.file, SubSeq(left, 1, l.offset), l.offset > 0)>>
        ELSE [rest EXCEPT ![Len(rest)].buf = SubSeq(@, 1, l.offset)]

\* Reading the file fails when it is not there or too short.
CanDeleteTo(l) ==
    Before(l, LatestLocation) =>
        /\ ~OutOfBuffers(l)
        /\ Surplus(l) = Len(cache) /\ l.offset > 0 =>
               l.file \in DOMAIN disk /\ l.offset <= Len(disk[l.file])

DeleteTo(l) ==
    IF Before(l, LatestLocation)
    THEN cache' = CacheTo(l) /\ nextFlushStart' = Lower(nextFlushStart, l)
    ELSE UNCHANGED <<cache, nextFlushStart>>
-----------------------------------------------------------------------------
(***************************************************************************)
(* NewFileManager: the last file on disk, and the end of the process.      *)
(***************************************************************************)
NoFd == [kind |-> "none", writer |-> FALSE]
Start == Location(1, 0)

LoadedItem(files) ==
    IF DOMAIN files = {} THEN Item(1, <<>>, FALSE)
    ELSE LET last == Max(DOMAIN files) IN Item(last, files[last], files[last] # <<>>)

Init ==
    /\ chain = <<[id |-> 1, size |-> 1, loc |-> Start]>>
    /\ disk = [f \in {1} |-> Bytes(chain)]
    /\ cache = <<Item(1, Bytes(chain), TRUE)>>
    /\ nextFlushStart = LatestLocation /\ prevFlush = LatestLocation
    /\ pc = "no" /\ mode = "commit" /\ flush = None /\ at = Start /\ fd = NoFd
    /\ redoLog = None /\ deleting = "no" /\ prepared = chain /\ durable = chain
    /\ written = 1 /\ rollbacks = 0 /\ flushes = 0 /\ faults = 0

\* The process ends with these files, and is started again: of the rest only the
\* log is left.  With a redo log Recover is next, else the node runs.
ProcessEnds(files) ==
    LET item == LoadedItem(files)
        latest == Location(item.file, Len(item.buf))
    IN
    /\ disk' = files /\ cache' = <<item>>
    /\ nextFlushStart' = latest /\ prevFlush' = latest
    /\ chain' = durable /\ prepared' = durable
    /\ pc' = IF redoLog = None THEN "no" ELSE "before"
    /\ mode' = "commit" /\ flush' = None /\ at' = Start /\ fd' = NoFd /\ deleting' = "no"
    /\ UNCHANGED <<redoLog, durable, written, rollbacks, flushes>>

Fault == faults < MaxFaults /\ faults' = faults + 1
-----------------------------------------------------------------------------
(***************************************************************************)
(* BlockDB.Write and BlockDB.Rollback, called by the chain.                *)
(***************************************************************************)
WriteBlock(size) ==
    LET b == [id |-> written + 1, size |-> size, loc |-> LatestLocation] IN
    /\ ChainIsFree /\ written < MaxBlocks
    /\ chain' = Append(chain, b)
    /\ LET w == Write(cache, Units(b), nextFlushStart)
       IN  cache' = w.cache /\ fd' = FdAfter(w.cache, w.reused)
    /\ written' = written + 1
    /\ UNCHANGED <<disk, nextFlushStart, prevFlush, pc, mode, flush, at, redoLog, deleting,
                   histVars, rollbacks, flushes, faults>>

\* The blocks after the n-th are deleted; the chain then calls flusher.Flush.
Rollback(n) ==
    LET l == GetNextLocation(chain[n]) IN
    /\ ChainIsFree /\ rollbacks < MaxRollbacks /\ CanDeleteTo(l)
    /\ chain' = SubSeq(chain, 1, n)
    /\ DeleteTo(l)
    /\ fd' = FdAfter(cache', {at.file})
    /\ deleting' = "waits" /\ rollbacks' = rollbacks + 1
    /\ UNCHANGED <<disk, prevFlush, pc, mode, flush, at, redoLog, histVars, written, flushes,
                   faults>>

\* DeleteTo panics or fails, and the chain ends the process.
RollbackPanics(n) ==
    /\ ChainIsFree /\ rollbacks < MaxRollbacks /\ ~CanDeleteTo(GetNextLocation(chain[n]))
    /\ ProcessEnds(disk) /\ UNCHANGED faults
-----------------------------------------------------------------------------
(***************************************************************************)
(* The calls of the flusher.                                               *)
(***************************************************************************)
Copied ==
    [start |-> nextFlushStart, target |-> LatestLocation,
     buf |-> ReadRaw(nextFlushStart,
                     IF Before(nextFlushStart, LatestLocation)
                     THEN Distance(nextFlushStart, LatestLocation) ELSE 0)]

\* Where there is nothing to read, panic("BlockDB prepare failed ...") or a nil file.
Prepare ==
    /\ Running /\ pc = "no" /\ flushes < MaxFlushes
    /\ IF None \in ToSet(Copied.buf) THEN ProcessEnds(disk) /\ UNCHANGED faults
       ELSE /\ flush' = Copied
            /\ nextFlushStart' = LatestLocation
            /\ deleting' = IF deleting = "waits" THEN "flushes" ELSE deleting
            /\ pc' = "prepared" /\ prepared' = chain /\ flushes' = flushes + 1
            /\ UNCHANGED <<chain, disk, cache, prevFlush, mode, at, fd, redoLog, durable,
                           written, rollbacks, faults>>

\* The end of flush(), for which a rollback before its Prepare may have waited.
FlushReturns == deleting' = IF deleting = "flushes" THEN "no" ELSE deleting

\* Mutant: what was prepared is never flushed.
CancelPrepareKeepsStart ==
    /\ pc = "prepared" /\ Fault
    /\ flush' = None /\ pc' = "no" /\ FlushReturns
    /\ UNCHANGED <<chain, fmVars, mode, at, fd, redoLog, histVars, written, rollbacks, flushes>>

\* The redo log could not be synced.
CancelPrepare ==
    /\ pc = "prepared" /\ Fault
    /\ nextFlushStart' = Lower(nextFlushStart, flush.start)
    /\ flush' = None /\ pc' = "no" /\ FlushReturns
    /\ UNCHANGED <<chain, disk, cache, prevFlush, mode, at, fd, redoLog, histVars, written,
                   rollbacks, flushes>>

\* The redo log, with RedoLog's record, is on disk; Commit calls FileManager.Flush.
SyncRedoLog ==
    /\ pc = "prepared"
    /\ redoLog' = flush /\ durable' = prepared
    /\ pc' = "flush" /\ mode' = "commit" /\ at' = flush.start
    /\ UNCHANGED <<chain, fmVars, flush, fd, deleting, prepared, boundVars>>

\* FileManager.Flush, top of the loop: a descriptor for the file at `at'.
GetFd ==
    /\ pc = "flush" /\ Before(at, redoLog.target)
    /\ pc' = "write"
    /\ fd' = IF at.file > Last(cache).file THEN [kind |-> "tmp", writer |-> TRUE]
             ELSE IF IsCached(at.file)
             THEN [kind |-> "item", writer |-> Cached(at.file).writer]
             ELSE [kind |-> "stale", writer |-> FALSE]   \* "cacheItem is nil"
    /\ UNCHANGED <<chain, fmVars, mode, flush, at, redoLog, deleting, histVars, boundVars>>

\* Contents of a file after d is written at an offset.
WrittenAt(c, offset, d) ==
    IF d = <<>> THEN c
    ELSE [i \in 1 .. Max({Len(c), offset + Len(d)}) |->
             IF i \in offset + 1 .. offset + Len(d) THEN d[i - offset]
             ELSE IF i <= Len(c) THEN c[i] ELSE None]

\* The part of the log for the file at `at'.
FlushEnd == IF at.file = redoLog.target.file THEN redoLog.target.offset ELSE FileSize
FlushData ==
    LET from == Distance(redoLog.start, at)
    IN  SubSeq(redoLog.buf, from + 1, from + FlushEnd - at.offset)

\* fileDescription.Flush, with n units written: a file without a writer is created,
\* or emptied.
FilesWritten(n) ==
    LET old == IF fd.writer /\ at.file \in DOMAIN disk THEN disk[at.file] ELSE <<>>
    IN  [f \in DOMAIN disk \cup {at.file} |->
            IF f = at.file THEN WrittenAt(old, at.offset, SubSeq(FlushData, 1, n))
            ELSE disk[f]]

FlushFd ==
    /\ pc = "write" /\ fd.kind # "stale"
    /\ disk' = FilesWritten(Len(FlushData))
    /\ cache' = [i \in DOMAIN cache |->
                    IF fd.kind = "item" /\ cache[i].file = at.file
                    THEN [cache[i] EXCEPT !.writer = TRUE] ELSE cache[i]]
    /\ at' = IF FlushEnd >= FileSize THEN Location(at.file + 1, 0)
             ELSE Location(at.file, FlushEnd)
    /\ pc' = "flush" /\ fd' = NoFd
    /\ UNCHANGED <<chain, nextFlushStart, prevFlush, mode, flush, redoLog, deleting, histVars,
                   boundVars>>

\* The process may end at any time, also in the middle of writing a file.
Crash ==
    /\ Fault /\ pc # "stuck"
    /\ \/ ProcessEnds(disk)
       \/ /\ pc = "write" /\ fd.kind # "stale"
          /\ \E n \in 0 .. Len(FlushData) - 1 : ProcessEnds(FilesWritten(n))

\* Flush returns an error: Commit is redone from the log, a redo ends the process.
FlushFails ==
    /\ pc = "write" /\ fd.kind = "stale"
    /\ IF mode = "commit"
         THEN /\ pc' = "failed" /\ fd' = NoFd
              /\ UNCHANGED <<chain, fmVars, mode, flush, at, redoLog, deleting, histVars,
                             boundVars>>
         ELSE ProcessEnds(disk) /\ UNCHANGED faults

\* Mutant: the file of the target is removed too.
DoomedInclusive == {f \in DOMAIN disk : redoLog.target.file <= f /\ f <= prevFlush.file}

\* DiskDelete: files after the target, one after the other.
Doomed == {f \in DOMAIN disk : redoLog.target.file < f /\ f <= prevFlush.file}

FlushDone == pc = "flush" /\ ~Before(at, redoLog.target)

DiskRemove ==
    /\ FlushDone /\ Before(redoLog.target, prevFlush) /\ Doomed # {}
    /\ disk' = [f \in DOMAIN disk \ {Max(Doomed)} |-> disk[f]]
    /\ UNCHANGED <<chain, cache, nextFlushStart, prevFlush, flushVars, histVars, boundVars>>

\* Mutant: the file of the target is left as long as it was.
DiskTruncateNot ==
    /\ FlushDone /\ (Before(redoLog.target, prevFlush) => Doomed = {})
    /\ prevFlush' = redoLog.target
    /\ pc' = IF mode = "commit" THEN "committed" ELSE "clean"
    /\ UNCHANGED <<chain, disk, cache, nextFlushStart, mode, flush, at, fd, redoLog, deleting,
                   histVars, boundVars>>

\* Its end, Truncate, and the end of Flush.
DiskTruncate ==
    LET target == redoLog.target IN
    /\ FlushDone /\ (Before(target, prevFlush) => Doomed = {})
    /\ disk' = IF Before(target, prevFlush) /\ target.file \in DOMAIN disk
               THEN [disk EXCEPT ![target.file] = SubSeq(@, 1, target.offset)] ELSE disk
    /\ prevFlush' = target
    /\ pc' = IF mode = "commit" THEN "committed" ELSE "clean"
    /\ UNCHANGED <<chain, cache, nextFlushStart, mode, flush, at, fd, redoLog, deleting,
                   histVars, boundVars>>

\* AfterCommit; then commitRedo, PatchRedoLog, if the commit of this store or of
\* another one has failed.
AfterCommit(otherFails) ==
    /\ pc \in {"committed", "failed"}
    /\ flush' = None
    /\ IF otherFails THEN Fault ELSE UNCHANGED faults
    /\ IF pc = "failed" \/ otherFails
         THEN pc' = "flush" /\ mode' = "redo" /\ at' = redoLog.start
         ELSE pc' = "clean" /\ UNCHANGED <<mode, at>>
    /\ UNCHANGED <<chain, fmVars, fd, redoLog, deleting, histVars, written, rollbacks, flushes>>

\* The redo log is truncated: the end of a flush and of a recovery.
CleanRedoLog ==
    /\ pc = "clean"
    /\ redoLog' = None /\ pc' = "no" /\ mode' = "commit" /\ FlushReturns
    /\ UNCHANGED <<chain, fmVars, flush, at, fd, histVars, boundVars>>
-----------------------------------------------------------------------------
(***************************************************************************)
(* Recover: BeforeRecover brings the buffers to the target of the log,     *)
(* PatchRedoLog flushes it.                                                *)
(***************************************************************************)
BeforeRecover ==
    LET l == redoLog.start
        longer == Before(l, LatestLocation)
    IN
    /\ pc = "before" /\ CanDeleteTo(l)
    /\ nextFlushStart' = IF longer THEN Lower(nextFlushStart, l) ELSE nextFlushStart
    /\ cache' = Write(IF longer THEN CacheTo(l) ELSE cache, redoLog.buf, nextFlushStart').cache
    /\ pc' = "flush" /\ mode' = "recover" /\ at' = l
    /\ UNCHANGED <<chain, disk, prevFlush, flush, fd, redoLog, deleting, histVars, boundVars>>

\* BeforeRecover panics: the node cannot be started.
BeforeRecoverPanics ==
    /\ pc = "before" /\ ~CanDeleteTo(redoLog.start)
    /\ pc' = "stuck"
    /\ UNCHANGED <<chain, fmVars, mode, flush, at, fd, redoLog, deleting, histVars, boundVars>>
-----------------------------------------------------------------------------
Next ==
    \/ \E size \in Sizes : WriteBlock(size)
    \/ \E n \in 1 .. Len(chain) - 1 : Rollback(n) \/ RollbackPanics(n)
    \/ Prepare \/ CancelPrepare \/ SyncRedoLog
    \/ GetFd \/ FlushFd \/ FlushFails \/ DiskRemove \/ DiskTruncate
    \/ \E otherFails \in BOOLEAN : AfterCommit(otherFails)
    \/ CleanRedoLog \/ BeforeRecover \/ BeforeRecoverPanics \/ Crash

Spec == Init /\ [][Next]_vars
-----------------------------------------------------------------------------
Unit == (1 .. MaxBlocks) \X (1 .. Max(Sizes))
Files == 1 .. MaxBlocks * Max(Sizes) + 1
LocationType == [file : Files, offset : 0 .. FileSize]
Block == [id : 1 .. MaxBlocks, size : Sizes \cup {1}, loc : LocationType]
FlushType == [start : LocationType, target : LocationType, buf : Seq(Unit)]

(***************************************************************************)
(* The types of the variables; the buffers are those of consecutive files, *)
(* and all but the last are full.  (fileCache, resetWriteFd.)              *)
(***************************************************************************)
TypeOK ==
    /\ {chain, prepared, durable} \subseteq Seq(Block)
    /\ DOMAIN disk \subseteq Files /\ \A f \in DOMAIN disk : disk[f] \in Seq(Unit)
    /\ cache \in Seq([file : Files, buf : Seq(Unit), writer : BOOLEAN]) /\ cache # <<>>
    /\ \A i \in 1 .. Len(cache) - 1 :
          cache[i + 1].file = cache[i].file + 1 /\ Len(cache[i].buf) = FileSize
    /\ {nextFlushStart, prevFlush, at} \subseteq LocationType
    /\ pc \in {"no", "prepared", "flush", "write", "failed", "committed", "clean", "before",
               "stuck"}
    /\ mode \in {"commit", "redo", "recover"} /\ deleting \in {"no", "waits", "flushes"}
    /\ {flush, redoLog} \subseteq FlushType \cup {None}
    /\ fd \in [kind : {"none", "item", "tmp", "stale"}, writer : BOOLEAN]

\* Buffers are dropped only of files before l and before the next flush.
DroppedBefore(l) ==
    \A f \in 1 .. Last(cache).file : IsCached(f) \/ f < Lower(nextFlushStart, l).file

\* The assumption under which the files are right: the cache is long enough for the
\* buffers of a flush to be kept until it ends.
FlushKeepsBuffers ==
    CASE flush # None -> DroppedBefore(flush.start)
      [] flush = None /\ redoLog # None /\ pc \notin {"before", "stuck"} ->
             DroppedBefore(redoLog.start)
      [] OTHER -> TRUE

(***************************************************************************)
(* When no flush is going on, the files hold the blocks of the last synced *)
(* redo log and nothing else, one after the other, whatever was written,   *)
(* rolled back, redone or recovered on the way.  (FileManager.Flush,       *)
(* DiskDelete, BeforeRecover.)                                             *)
(***************************************************************************)
FilesMatchLedger ==
    pc = "no" =>
        LET n == Max(DOMAIN disk) IN
        /\ DOMAIN disk = 1 .. n
        /\ \A f \in 1 .. n - 1 : Len(disk[f]) = FileSize
        /\ FlattenSeq([f \in 1 .. n |-> disk[f]]) = Bytes(durable)

(***************************************************************************)
(* Only buffers of files that are on disk are dropped: "remove stale       *)
(* cache", fd_manager.go.  (resetWriteFd.)                                 *)
(***************************************************************************)
EvictedIsFlushed ==
    CASE pc = "prepared" -> DroppedBefore(flush.start)
      [] pc \in {"flush", "write", "failed"} /\ mode = "commit" -> DroppedBefore(at)
      [] pc = "no" -> DroppedBefore(nextFlushStart)
      [] OTHER -> TRUE

(***************************************************************************)
(* As long as that is so, a block of the chain is read at its location as  *)
(* it was written, from the buffers or from the files, also while these    *)
(* are being flushed.  (FileManager.Read.)                                 *)
(***************************************************************************)
BlocksReadable ==
    Running /\ EvictedIsFlushed =>
        \A b \in ToSet(chain) : ReadRaw(b.loc, b.size) = Units(b)

(***************************************************************************)
(* The writer of a buffer is never that of a file DiskDelete has removed:  *)
(* what is flushed through it would be lost.  (DiskDelete, DeleteTo.)      *)
(***************************************************************************)
WritersOnDisk == \A i \in DOMAIN cache : cache[i].writer => cache[i].file \in DOMAIN disk

(***************************************************************************)
(* A redo log can be recovered from: DeleteTo finds a buffer, or sees that *)
(* there is none, for each file after the start of the log.                *)
(* (BeforeRecover, DeleteTo.)                                              *)
(***************************************************************************)
RecoveryStarts == pc # "stuck"
=============================================================================
