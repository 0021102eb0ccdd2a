-------------------------------- MODULE Sync --------------------------------
(***************************************************************************)
(* The synchronisation of the snapshot chain: syncer, the executor that    *)
(* downloads, cacheReader, and the cache of downloaded segments between    *)
(* them (net/syncer.go, net/sync_downloader.go, net/sync_conn.go,          *)
(* net/sync_cache_reader.go, ledger/chain/sync_cache).                     *)
(*                                                                         *)
(* Heights count segments: segment c leads from height c - 1 to height c.  *)
(* The download loop of the syncer cuts what is missing into tasks, window *)
(* by window; each task is run by a goroutine of the executor, which writes*)
(* the segment to the cache; the reader takes the segments out of the      *)
(* cache in the order of their heights, into a buffer; the pool inserts    *)
(* the first chunk of the buffer into the chain.                           *)
(*                                                                         *)
(* The code loses a segment, until the timeout of start, in these cases: a *)
(* chunk is read while reading is paused, or added after a reset; a writer *)
(* closes or deletes an item that is no longer its own; a segment that is  *)
(* written is downloaded again, and its task fails for ever; the pool does *)
(* not accept a chunk; the skeleton of a window is not found.  stalled     *)
(* records that one of them happened.                                      *)
(***************************************************************************)
EXTENDS Naturals, Sequences, FiniteSets, Functions

CONSTANTS
    Target,          \* height of the sync peer
    Window,          \* maxBatchChunkSize: segments in one skeleton
    MaxTasks, MaxBatch,   \* of newExecutor
    MaxQueueLength,  \* of the buffer
    Ids,             \* bound: tasks that exist at a time
    MaxFaults,       \* bound: failures of peers, files and connections
    MaxRetries       \* retrySync at which the syncer gives up

ASSUME SyncAssumption == Target \in Nat /\ Window \in Nat

VARIABLES
    head,        \* height of the chain
    cache,       \* items of the sync cache: state, and the task whose writer made it
    queue, cap,  \* executor.tasks and its capacity
    task,        \* of every task its segment, reqState, and what its goroutine does
    readHeight, readable, buffer,   \* of the cache reader
    reader,      \* the goroutine of readLoop
    loop,        \* the goroutine of downloadLoop
    canceled,    \* syncer.taskCanceled
    phase,       \* the goroutine of start
    retries, peeked, faults,
    stalled      \* not in the code: this synchronisation lost a segment, which only the timeout of
                 \* start makes good

fileVars == <<cache, queue, cap, task>>
readVars == <<readHeight, readable, buffer, reader>>
startVars == <<loop, canceled, phase, retries>>
syncVars == <<head, fileVars, readVars, startVars, peeked, faults, stalled>>

\* The genesis block has height 1.
Segments == 2 .. Target
NoItem == [st |-> "none", by |-> 0]
Item(st, t) == [st |-> st, by |-> t]

\* Chunks(): the segments that are written.  Whether one is whole is not known.
Written == {"good", "bad"}
Chunks == {c \in Segments : cache[c].st \in Written}

NewRound == [pc |-> "loop", rh |-> 0, seen |-> {}]
NoTask == [seg |-> 0, st |-> "none", job |-> "none"]
Waiting(seg) == [seg |-> seg, st |-> "waiting", job |-> "none"]
\* A task that is in no queue, and whose goroutine has ended, is garbage.
Live(q, ts) == [t \in Ids |-> IF t \in Range(q) \/ ts[t].job # "none" THEN ts[t] ELSE NoTask]

NewLoop(pc, start) ==
    [pc |-> pc, start |-> start, end |-> IF start + Window < Target THEN start + Window ELSE Target,
     todo |-> {}]

SyncInit ==
    /\ head = 1
    /\ \E left \in SUBSET Segments :
           /\ faults = Cardinality(left) /\ faults <= MaxFaults
           /\ cache = [c \in Segments |-> IF c \in left THEN Item("bad", 0) ELSE NoItem]
    /\ queue = <<>> /\ cap = MaxTasks
    /\ task = [t \in Ids |-> NoTask]
    /\ readHeight = 0 /\ readable = TRUE /\ buffer = <<>>
    /\ reader = NewRound
    /\ loop = NewLoop("begin", head)
    /\ canceled = FALSE /\ phase = "syncing" /\ retries = 0
    /\ peeked = 0 /\ stalled = FALSE

Fault == faults < MaxFaults /\ faults' = faults + 1
----------------------------------------------------------------------------
(* The executor *)

FreeIds == {t \in Ids : task[t] = NoTask}

\* addTasks: sorted by From; of two tasks for a segment any may be first.
Added(t, seg) ==
    {Append(SubSeq(queue, 1, n), t) \o SubSeq(queue, n + 1, Len(queue)) :
        n \in {m \in 0 .. Len(queue) : /\ \A i \in 1 .. m : task[queue[i]].seg <= seg
                                       /\ \A i \in m + 1 .. Len(queue) : seg <= task[queue[i]].seg}}

\* download, when it need not wait; the slice doubles when it has to.
Download(seg) ==
    LET t == CHOOSE x \in FreeIds : TRUE
    IN  /\ FreeIds # {}
        /\ queue' \in Added(t, seg)
        /\ task' = [task EXCEPT ![t] = Waiting(seg)]
        /\ cap' = IF Len(queue) = cap THEN 2 * cap ELSE cap

CancelAllTasks == queue' = <<>> /\ task' = Live(<<>>, task) /\ UNCHANGED cap

\* The tasks that runTasks starts, from index on.
Started[index \in Nat, batch \in Nat] ==
    IF index >= Len(queue) THEN {}
    ELSE LET t == queue[index + 1]
         IN  CASE task[t].st = "done"    -> Started[index + 1 + batch, batch]
               [] task[t].st = "pending" -> Started[index + batch + 1, batch + 1]
               [] task[t].st \in {"waiting", "error"} ->
                      IF batch < MaxBatch THEN {t} \cup Started[index + batch + 1, batch + 1] ELSE {}

\* The done tasks at the front of the queue.
Lead == CHOOSE n \in 0 .. Len(queue) :
            /\ \A i \in 1 .. n : task[queue[i]].st = "done"
            /\ n < Len(queue) => task[queue[n + 1]].st # "done"

\* runTasks; the done tasks are cleaned when they are old and enough.
RunTasks(old) ==
    LET started == Started[0, 0]
        clean == IF old /\ Lead > Len(queue) \div 5 THEN Lead ELSE 0
    IN  /\ started # {} \/ clean > 0
        /\ queue' = SubSeq(queue, clean + 1, Len(queue))
        /\ task' = Live(queue', [t \in Ids |-> IF t \in started THEN [task[t] EXCEPT !.st = "pending", !.job = "choose"]
                                               ELSE task[t]])
        /\ UNCHANGED <<head, cache, cap, readVars, startVars, peeked, faults, stalled>>

\* The goroutine ends.
Ended(t, st) == task' = Live(queue, [task EXCEPT ![t].job = "none", ![t].st = st])

\* No peer is tall enough, none is idle, or the connection or the request fails.
NoSource(t) ==
    /\ Fault
    /\ \E st \in {"error", "waiting"} : Ended(t, st)
    /\ UNCHANGED <<cache, stalled>>

\* do, up to the writer of the cache: a source is found or not; NewWriter refuses a segment
\* that the cache has.
Choose(t) ==
    /\ task[t].job = "choose"
    /\ \/ /\ cache[task[t].seg] = NoItem
          /\ cache' = [cache EXCEPT ![task[t].seg] = Item("writing", t)]
          /\ task' = [task EXCEPT ![t].job = "write"]
          /\ UNCHANGED <<faults, stalled>>
       \/ /\ cache[task[t].seg] # NoItem
          /\ Ended(t, "error")
          /\ stalled' = (stalled \/ cache[task[t].seg].st \in Written)
          /\ UNCHANGED <<cache, faults>>
       \/ NoSource(t)
    /\ UNCHANGED <<head, queue, cap, readVars, startVars, peeked>>

\* writer.Close, of an item that may have been deleted: the peer sent the segment, or
\* something else, or not all of it.
Closed(t, st) ==
    LET mine == cache[task[t].seg] = Item("writing", t)
    IN  /\ cache' = IF mine THEN [cache EXCEPT ![task[t].seg] = Item(st, 0)] ELSE cache
        /\ stalled' = (stalled \/ ~mine)
CloseWriter(t) ==
    /\ task[t].job = "write"
    /\ \/ /\ Closed(t, "good")
          /\ Ended(t, "done")
          /\ UNCHANGED faults
       \/ /\ Fault
          /\ Closed(t, "bad")
          /\ Ended(t, "done")
       \/ /\ Fault
          /\ Closed(t, "bad")
          /\ task' = [task EXCEPT ![t].job = "delete"]
    /\ UNCHANGED <<head, queue, cap, readVars, startVars, peeked>>

\* The incomplete segment is deleted, with whatever item it has by now.
DeleteIncomplete(t) ==
    /\ task[t].job = "delete"
    /\ cache' = [cache EXCEPT ![task[t].seg] = NoItem]
    /\ Ended(t, "error")
    /\ stalled' = (stalled \/ t \notin Range(queue))
    /\ UNCHANGED <<head, queue, cap, readVars, startVars, peeked, faults>>
----------------------------------------------------------------------------
(* The cache reader *)

Goto(pc) == reader' = IF pc = "loop" THEN NewRound ELSE [reader EXCEPT !.pc = pc]

\* A round of readLoop starts with the chunks of the cache.
ReadRound ==
    /\ reader.pc = "loop"
    /\ readable /\ Chunks # {}
    /\ reader' = [pc |-> "next", rh |-> readHeight, seen |-> Chunks]
    /\ UNCHANGED <<head, fileVars, readHeight, readable, buffer, startVars, peeked, faults, stalled>>

\* The next chunk of the round is read, unless the height was changed or the chunk is missing.
Read ==
    LET next == readHeight = reader.rh /\ reader.rh + 1 \in reader.seen
        st == IF next THEN cache[reader.rh + 1].st ELSE "none"
    IN  /\ reader.pc = "next"
        /\ Goto(CASE ~next \/ st = "none" -> "loop"
                  [] next /\ st = "writing" -> "failed"
                  [] next /\ st \in Written /\ ~readable -> "loop"
                  [] next /\ st = "good" /\ readable -> "done"
                  [] next /\ st = "bad" /\ readable -> "failed")
        /\ UNCHANGED <<head, fileVars, readHeight, readable, buffer, startVars, peeked, faults, stalled>>

\* Mutant: the segment is deleted only.
ReadFailedNoDownload ==
    /\ reader.pc = "failed"
    /\ Goto("loop")
    /\ cache' = [cache EXCEPT ![reader.rh + 1] = NoItem]
    /\ UNCHANGED <<head, queue, cap, task, readHeight, readable, buffer, startVars, peeked, faults, stalled>>

\* chunkReadFailed: the segment is deleted, then downloaded again.
ReadFailed ==
    /\ reader.pc = "failed"
    /\ Goto(IF cache[reader.rh + 1] = NoItem THEN "loop" ELSE "again")
    /\ cache' = [cache EXCEPT ![reader.rh + 1] = NoItem]
    /\ UNCHANGED <<head, queue, cap, task, readHeight, readable, buffer, startVars, peeked, faults, stalled>>
DownloadAgain ==
    /\ reader.pc = "again"
    /\ Download(reader.rh + 1)
    /\ Goto("loop")
    /\ UNCHANGED <<head, cache, readHeight, readable, buffer, startVars, peeked, faults, stalled>>

\* The height is advanced, then the chunk is added.
Advance ==
    /\ reader.pc = "done"
    /\ IF readHeight = reader.rh
       THEN readHeight' = reader.rh + 1 /\ reader' = [reader EXCEPT !.pc = "add", !.rh = @ + 1]
       ELSE readHeight' = readHeight /\ Goto("loop")
    /\ UNCHANGED <<head, fileVars, readable, buffer, startVars, peeked, faults, stalled>>

\* addChunkToBuffer, which waits for a signal while the buffer is full and forgets the chunk
\* when reading is paused.
AddChunkToBuffer ==
    LET full == Len(buffer) > MaxQueueLength
    IN  /\ reader.pc = "add"
        /\ buffer' = IF readable /\ ~full THEN Append(buffer, reader.rh) ELSE buffer
        /\ stalled' = (stalled \/ ~readable \/ (~full /\ reader.rh # readHeight))
        /\ Goto(IF readable /\ full THEN "wait" ELSE "next")
        /\ UNCHANGED <<head, fileVars, readHeight, readable, startVars, peeked, faults>>
Signal == reader' = IF reader.pc = "wait" THEN [reader EXCEPT !.pc = "add"] ELSE reader

\* cleanLoop: the segments below the irreversible block.
CleanCache ==
    \E irreversible \in Segments :
        /\ irreversible <= head
        /\ \E c \in Chunks : c < irreversible
        /\ cache' = [c \in Segments |-> IF c \in Chunks /\ c < irreversible THEN NoItem ELSE cache[c]]
        /\ UNCHANGED <<head, queue, cap, task, readVars, startVars, peeked, faults, stalled>>
----------------------------------------------------------------------------
(* The pool *)

Peek ==
    /\ peeked = 0 /\ buffer # <<>>
    /\ Head(buffer) <= head + 1
    /\ peeked' = Head(buffer)
    /\ UNCHANGED <<head, fileVars, readVars, startVars, faults, stalled>>

\* Mutant: a reader that waits for room is not woken.
PopNoSignal ==
    /\ buffer' = IF buffer # <<>> /\ Head(buffer) = peeked THEN Tail(buffer) ELSE buffer
    /\ UNCHANGED reader

Pop ==
    IF buffer # <<>> /\ Head(buffer) = peeked THEN buffer' = Tail(buffer) /\ Signal
    ELSE UNCHANGED <<buffer, reader>>

\* insertChunks, of a chunk that continues the chain or that the chain has; then Pop.
InsertChunks ==
    /\ peeked # 0
    /\ \/ head' = (IF peeked = head + 1 THEN peeked ELSE head) /\ UNCHANGED <<faults, stalled>>
       \/ Fault /\ UNCHANGED head /\ stalled' = TRUE
    /\ Pop
    /\ peeked' = 0
    /\ UNCHANGED <<fileVars, readHeight, readable, startVars>>
----------------------------------------------------------------------------
(* The syncer *)

\* cacheReader.reset: the last segment, when it is not a whole one, is deleted.
Reset ==
    /\ readHeight' = 0 /\ buffer' = <<>> /\ Signal
    /\ cache' = IF Target \in Chunks THEN [cache EXCEPT ![Target] = NoItem] ELSE cache

Begin ==
    /\ loop.pc = "begin"
    /\ canceled' = FALSE
    /\ loop' = [loop EXCEPT !.pc = "compare"]
    /\ UNCHANGED <<head, fileVars, readVars, phase, retries, peeked, faults, stalled>>

\* compareCache: reading is paused; a task for every segment of the window that is not
\* in the cache; reading is resumed.
Missing == (loop.start + 1 .. loop.end) \ Chunks
CompareCache ==
    /\ loop.pc = "compare"
    /\ readable' = FALSE
    /\ readHeight' = IF readHeight = 0 THEN loop.start ELSE readHeight
    /\ loop' = [loop EXCEPT !.pc = "resume", !.todo = Missing]
    /\ UNCHANGED <<head, fileVars, buffer, reader, canceled, phase, retries, peeked, faults, stalled>>
Resume ==
    /\ loop.pc = "resume"
    /\ readable' = TRUE
    /\ loop' = [loop EXCEPT !.pc = "submit"]
    /\ Signal
    /\ UNCHANGED <<head, fileVars, readHeight, buffer, canceled, phase, retries, peeked, faults, stalled>>

\* A task of the window, the lowest, goes to the executor, when there is room.
Lowest(cs) == CHOOSE c \in cs : \A d \in cs : c <= d
Submit ==
    /\ loop.pc = "submit" /\ loop.todo # {}
    /\ Len(queue) # cap
    /\ IF canceled
       THEN CancelAllTasks /\ loop' = [loop EXCEPT !.pc = "end"]
       ELSE Download(Lowest(loop.todo)) /\ loop' = [loop EXCEPT !.todo = @ \ {Lowest(@)}]
    /\ UNCHANGED <<head, cache, readVars, canceled, phase, retries, peeked, faults, stalled>>

\* The next window; its skeleton may not be found.
NextWindow ==
    /\ loop.pc = "submit" /\ loop.todo = {}
    /\ \/ loop' = (IF loop.end = Target THEN [loop EXCEPT !.pc = "end"] ELSE NewLoop("compare", loop.end))
          /\ UNCHANGED <<faults, stalled>>
       \/ loop.end # Target /\ Fault /\ loop' = [loop EXCEPT !.pc = "end"] /\ stalled' = TRUE
    /\ UNCHANGED <<head, fileVars, readVars, canceled, phase, retries, peeked>>

\* stopSync, which then waits for the download loop.
StopSync == canceled' = TRUE /\ CancelAllTasks /\ Reset
Stopped == phase = "stopping" /\ loop.pc = "end"

\* The chain did not grow for the timeout.
Stuck ==
    /\ phase = "syncing" /\ head # Target
    /\ loop.pc # "begin"
    /\ IF retries < MaxRetries THEN UNCHANGED faults ELSE Fault
    /\ StopSync
    /\ phase' = "stopping"
    /\ UNCHANGED <<head, readable, loop, retries, peeked, stalled>>

\* Then sync() again, or no more.
Retry ==
    /\ Stopped
    /\ IF retries = MaxRetries THEN phase' = "error" /\ UNCHANGED <<readHeight, buffer, reader, cache, loop, retries, stalled>>
       ELSE /\ head # Target
            /\ Reset
            /\ stalled' = FALSE
            /\ phase' = "syncing"
            /\ retries' = retries + 1
            /\ loop' = NewLoop("begin", head)
    /\ UNCHANGED <<head, queue, cap, task, readable, canceled, peeked, faults>>

\* start returns when the height is reached; or early, when all peers are gone or sync()
\* finds no skeleton.
StopAll == StopSync /\ phase' = "done" /\ UNCHANGED <<head, readable, loop, retries, peeked, stalled>>
Done ==
    /\ head = Target
    /\ phase \in {"syncing", "error"} \/ (Stopped /\ retries < MaxRetries)
    /\ StopAll
    /\ UNCHANGED faults
Leave ==
    /\ phase \in {"syncing", "error"} \/ (Stopped /\ retries < MaxRetries)
    /\ Fault
    /\ StopAll
----------------------------------------------------------------------------
\* The goroutines.
Job(t) == Choose(t) \/ CloseWriter(t) \/ DeleteIncomplete(t)
ReadLoop == ReadRound \/ Read \/ ReadFailed \/ DownloadAgain \/ Advance \/ AddChunkToBuffer
Worker == Peek \/ InsertChunks
DownloadLoop == Begin \/ CompareCache \/ Resume \/ Submit \/ NextWindow
Start == Retry \/ Done

SyncNext ==
    \/ \E old \in BOOLEAN : RunTasks(old)
    \/ \E t \in Ids : Job(t)
    \/ ReadLoop \/ CleanCache \/ Worker \/ DownloadLoop
    \/ Stuck \/ Leave \/ Start

\* Every goroutine that can go on does; the timeout need not come.
SyncFairness ==
    /\ \A old \in BOOLEAN : WF_syncVars(RunTasks(old))
    /\ \A t \in Ids : WF_syncVars(Job(t))
    /\ WF_syncVars(ReadLoop) /\ WF_syncVars(Worker) /\ WF_syncVars(DownloadLoop) /\ WF_syncVars(Start)

SyncSpec == SyncInit /\ [][SyncNext]_syncVars /\ SyncFairness
----------------------------------------------------------------------------
(* Properties *)

\* While a synchronisation runs, every segment that its download loop has come to and the
\* reader has not is in the cache, or still in the executor's queue, or about to be downloaded
\* again: a bad or incomplete segment, a task that failed, or a peer that left never makes it
\* disappear, other than by the losses that stalled records.
NothingForgotten ==
    phase = "syncing" /\ ~canceled /\ loop.pc \notin {"begin", "compare"} =>
        \A c \in Segments :
            \/ c <= readHeight \/ c <= head \/ c > loop.end
            \/ c \in Chunks \cup loop.todo
            \/ \E t \in Range(queue) : task[t].seg = c /\ task[t].st # "done"
            \/ reader.pc \in {"failed", "again"} /\ reader.rh + 1 = c
            \/ stalled

\* A synchronisation, the first one or a retry, that drops no segment reaches the height of the
\* peer by itself: the download loop, the executor, the reader and the pool never all wait for
\* each other until the timeout.
SyncCompletes == []<>(phase # "syncing" \/ stalled)
=============================================================================
