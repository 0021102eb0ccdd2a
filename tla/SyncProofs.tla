----------------------------- MODULE SyncProofs -----------------------------
(***************************************************************************)
(* Proofs about Sync: no segment is forgotten, for any height of the peer, *)
(* any windows, tasks and buffer, and any number of failures and retries.  *)
(***************************************************************************)
EXTENDS Sync, SequenceTheorems, WellFoundedInduction, TLAPS

Items == [st : {"none", "writing", "good", "bad"}, by : Ids \cup {0}]
Tasks == [seg : Nat, st : {"none", "waiting", "pending", "done", "error"},
          job : {"none", "choose", "write", "delete"}]

Readers == [pc : {"loop", "next", "failed", "again", "done", "add", "wait"},
            rh : Nat, seen : SUBSET Segments]
Loops == [pc : {"begin", "compare", "resume", "submit", "end"},
          start : Nat, end : Nat, todo : SUBSET Nat]

TypeOK ==
    /\ head \in Nat /\ readHeight \in Nat
    /\ cache \in [Segments -> Items]
    /\ queue \in Seq(Ids)
    /\ task \in [Ids -> Tasks]
    /\ reader \in Readers /\ loop \in Loops

\* The height up to which the download loop has cut the chain into tasks.
Cut == IF loop.pc \in {"begin", "compare"} THEN loop.start ELSE loop.end

\* A segment is read, in the cache, about to be downloaded, in the executor, or about to be
\* downloaded again: the reader goes on with a failed segment only if it finds it in the cache.
Kept(c) ==
    \/ c <= readHeight \/ c <= head
    \/ c \in Chunks \cup loop.todo
    \/ \E t \in Range(queue) : task[t].seg = c /\ task[t].st # "done"
    \/ reader.pc = "again" /\ reader.rh + 1 = c
    \/ reader.pc = "failed" /\ reader.rh + 1 = c /\ cache[c] # NoItem

Held == phase = "syncing" /\ ~canceled => \A c \in Segments : c > Cut \/ Kept(c) \/ stalled

\* The download loop begins at a height of the chain, and each window with no task.
Windows ==
    /\ loop.pc = "begin" => loop.start <= head
    /\ loop.pc \in {"begin", "compare"} => loop.todo = {}

IInv == TypeOK /\ Windows /\ Held
-----------------------------------------------------------------------------
(* The executor's queue *)

\* Every set of numbers has a least one.
LEMMA Least ==
    ASSUME NEW T \in SUBSET Nat, T # {}
    PROVE  \E x \in T : \A y \in T : x <= y
  <1> DEFINE LessThan == {p \in Nat \X Nat : p[1] < p[2]}
  <1>1. IsWellFoundedOn(LessThan, Nat)
    BY NatLessThanWellFounded DEF OpToRel
  <1>2. PICK x \in T : \A y \in T : <<y, x>> \notin LessThan
    <2> HIDE DEF LessThan
    <2> QED BY <1>1, WFMin, Zenon
  <1>3. ASSUME NEW y \in T
        PROVE  x <= y
    <2>1. x \in Nat /\ y \in Nat
      OBVIOUS
    <2>2. y < x => <<y, x>> \in LessThan
      BY <2>1
    <2> HIDE DEF LessThan
    <2> QED BY <1>2, <2>1, <2>2
  <1> QED BY <1>3

\* A task is added to the tasks of the queue.
LEMMA AddedRange ==
    ASSUME TypeOK, NEW t \in Ids, NEW seg, NEW q \in Added(t, seg)
    PROVE  q \in Seq(Ids) /\ Range(q) = Range(queue) \cup {t}
  <1>1. PICK n \in 0 .. Len(queue) :
            q = Append(SubSeq(queue, 1, n), t) \o SubSeq(queue, n + 1, Len(queue))
    BY DEF Added
  <1> DEFINE a == SubSeq(queue, 1, n)
             b == SubSeq(queue, n + 1, Len(queue))
  <1>2. queue \in Seq(Ids) /\ Len(queue) \in Nat
    BY DEF TypeOK
  <1>3. /\ a \in Seq(Ids) /\ Len(a) = n /\ \A i \in 1 .. n : a[i] = queue[i]
        /\ b \in Seq(Ids) /\ Len(b) = Len(queue) - n
        /\ \A i \in 1 .. Len(queue) - n : b[i] = queue[n + i]
    BY <1>2
  <1>4. Range(a) = {queue[i] : i \in 1 .. n}
    <2>1. Range(a) = {a[i] : i \in 1 .. Len(a)}
      BY <1>3, RangeEquality, Zenon
    <2> HIDE DEF a
    <2> QED BY <1>3, <2>1
  <1>5. Range(b) = {queue[i] : i \in n + 1 .. Len(queue)}
    <2>1. Range(b) = {b[i] : i \in 1 .. Len(queue) - n}
      BY <1>3, RangeEquality
    <2>2. \A i \in n + 1 .. Len(queue) : i - n \in 1 .. Len(queue) - n /\ b[i - n] = queue[i]
      BY <1>2, <1>3
    <2>3. \A i \in 1 .. Len(queue) - n : n + i \in n + 1 .. Len(queue)
      BY <1>2
    <2> HIDE DEF b
    <2>4. \A i \in 1 .. Len(queue) - n : b[i] = queue[n + i]
      BY <1>3
    <2> QED BY <2>1, <2>2, <2>3, <2>4
  <1>6. Range(queue) = Range(a) \cup Range(b)
    <2>1. Range(queue) = {queue[i] : i \in 1 .. Len(queue)}
      BY <1>2, RangeEquality
    <2>2. 1 .. Len(queue) = (1 .. n) \cup (n + 1 .. Len(queue))
      BY <1>2
    <2> QED BY <1>4, <1>5, <2>1, <2>2
  <1> HIDE DEF a, b
  <1>7. /\ Append(a, t) \in Seq(Ids) /\ Len(Append(a, t)) = n + 1
        /\ \A i \in 1 .. n : Append(a, t)[i] = a[i]
        /\ Append(a, t)[n + 1] = t
    BY <1>3, AppendProperties
  <1>8. Range(Append(a, t)) = Range(a) \cup {t}
    <2>1. Range(Append(a, t)) = {Append(a, t)[i] : i \in 1 .. n + 1}
      BY <1>7, RangeEquality
    <2>2. 1 .. n + 1 = (1 .. n) \cup {n + 1}
      OBVIOUS
    <2> QED BY <1>3, <1>4, <1>7, <2>1, <2>2
  <1>9. q = Append(a, t) \o b
    BY <1>1 DEF a, b
  <1>10. q \in Seq(Ids)
    BY <1>3, <1>7, <1>9, ConcatProperties
  <1>11. Range(q) = Range(Append(a, t)) \cup Range(b)
    <2>1. b \in Seq(Ids) /\ Append(a, t) \in Seq(Ids)
      BY <1>3, <1>7
    <2> QED BY <1>9, <2>1, RangeConcatenation, Zenon
  <1> QED BY <1>6, <1>8, <1>10, <1>11

\* The tasks at the front that are cleaned are done.
LEMMA LeadDone ==
    ASSUME TypeOK
    PROVE  Lead \in 0 .. Len(queue) /\ \A i \in 1 .. Lead : task[queue[i]].st = "done"
  <1> DEFINE Open == {i \in 1 .. Len(queue) : task[queue[i]].st # "done"}
             DoneBefore(n) == /\ \A i \in 1 .. n : task[queue[i]].st = "done"
                              /\ n < Len(queue) => task[queue[n + 1]].st # "done"
  <1>0. Len(queue) \in Nat
    BY DEF TypeOK
  <1>1. \E n \in 0 .. Len(queue) : DoneBefore(n)
    <2>1. CASE Open = {}
      <3>1. DoneBefore(Len(queue))
        BY <1>0, <2>1
      <3> QED BY <1>0, <3>1
    <2>2. CASE Open # {}
      <3>1. Open \in SUBSET Nat
        BY <1>0
      <3>2. PICK m \in Open : \A i \in Open : m <= i
        <4> HIDE DEF Open
        <4> QED BY <2>2, <3>1, Least
      <3>3. m - 1 \in 0 .. Len(queue) /\ DoneBefore(m - 1)
        BY <1>0, <3>2
      <3> QED BY <3>3
    <2> QED BY <2>1, <2>2
  <1>2. Lead = CHOOSE n \in 0 .. Len(queue) : DoneBefore(n)
    BY DEF Lead
  <1>3. Lead \in 0 .. Len(queue) /\ DoneBefore(Lead)
    <2> HIDE DEF DoneBefore
    <2> QED BY <1>1, <1>2
  <1> QED BY <1>3

\* Some task is new, and holds the segment; the others are as before.
LEMMA DownloadKeeps ==
    ASSUME TypeOK, NEW seg \in Nat, Download(seg)
    PROVE  /\ queue' \in Seq(Ids)
           /\ \E t \in Range(queue') : task'[t].seg = seg /\ task'[t].st # "done"
           /\ \A c \in Segments : \A t \in Range(queue) :
                 task[t].seg = c => t \in Range(queue') /\ task'[t] = task[t]
           /\ task' \in [Ids -> Tasks]
  <1> DEFINE t0 == CHOOSE x \in FreeIds : TRUE
  <1>1. t0 \in FreeIds /\ t0 \in Ids /\ task[t0].seg = 0
    BY DEF Download, FreeIds, NoTask
  <1>2. /\ queue' \in Added(t0, seg)
        /\ task' = [task EXCEPT ![t0] = Waiting(seg)]
    BY DEF Download
  <1> HIDE DEF t0
  <1>3. queue' \in Seq(Ids) /\ Range(queue') = Range(queue) \cup {t0}
    BY <1>1, <1>2, AddedRange
  <1>4. Range(queue) \subseteq Ids
    BY RangeOfSeq DEF TypeOK
  <1> QED BY <1>1, <1>2, <1>3, <1>4 DEF TypeOK, Tasks, Waiting, Segments
-----------------------------------------------------------------------------
(* Types *)

\* The tasks that are left when tasks are cleaned.
LEMMA LiveType ==
    ASSUME NEW q, NEW ts \in [Ids -> Tasks]
    PROVE  Live(q, ts) \in [Ids -> Tasks]
  BY DEF Live, NoTask, Tasks

\* A task that ends has its type.
LEMMA EndedType ==
    ASSUME TypeOK, NEW t \in Ids, NEW st \in {"waiting", "done", "error"}, Ended(t, st)
    PROVE  task' \in [Ids -> Tasks]
  <1>1. [task EXCEPT ![t].job = "none", ![t].st = st] \in [Ids -> Tasks]
    BY DEF TypeOK, Tasks
  <1> QED BY <1>1, LiveType DEF Ended

\* A step of the reader, or a signal to it, keeps its type.
LEMMA GotoType ==
    ASSUME TypeOK, Signal \/ \E pc \in {"loop", "next", "failed", "again", "done", "wait"} : Goto(pc)
    PROVE  reader' \in Readers
  BY DEF Signal, Goto, NewRound, TypeOK, Readers

\* A reset of the reader and of the cache keeps their types.
LEMMA ResetType ==
    ASSUME TypeOK, Reset
    PROVE  readHeight' \in Nat /\ reader' \in Readers /\ cache' \in [Segments -> Items]
  <1>1. cache' \in [Segments -> Items]
    BY DEF Reset, TypeOK, Items, NoItem
  <1>2. readHeight' \in Nat /\ Signal
    BY DEF Reset
  <1> QED BY <1>1, <1>2, GotoType

\* A download loop that begins has its type.
LEMMA NewLoopType ==
    ASSUME NEW pc \in {"begin", "compare"}, NEW start \in Nat
    PROVE  NewLoop(pc, start) \in Loops
  BY SyncAssumption DEF NewLoop, Loops

\* The lowest segment of a window is one of it.
LEMMA LowestIn ==
    ASSUME NEW cs \in SUBSET Nat, cs # {}
    PROVE  Lowest(cs) \in cs
  <1>1. \E c \in cs : \A d \in cs : c <= d
    BY Least
  <1> QED BY <1>1 DEF Lowest

\* The types at the start.
LEMMA InitType == SyncInit => TypeOK
  <1> SUFFICES ASSUME SyncInit
               PROVE  TypeOK
    OBVIOUS
  <1>1. cache \in [Segments -> Items]
    BY DEF SyncInit, Item, NoItem, Items
  <1>2. task \in [Ids -> Tasks]
    BY DEF SyncInit, NoTask, Tasks
  <1>3. loop \in Loops
    BY NewLoopType DEF SyncInit
  <1> QED BY <1>1, <1>2, <1>3 DEF SyncInit, TypeOK, NewRound, Readers

\* Every step keeps the types.
LEMMA NextType ==
    ASSUME TypeOK, [SyncNext]_syncVars
    PROVE  TypeOK'
  <1> USE DEF fileVars, readVars, startVars
  <1>1. ASSUME NEW old \in BOOLEAN, RunTasks(old)
        PROVE  TypeOK'
    <2> DEFINE clean == IF old /\ Lead > Len(queue) \div 5 THEN Lead ELSE 0
               ts == [t \in Ids |-> IF t \in Started[0, 0]
                                    THEN [task[t] EXCEPT !.st = "pending", !.job = "choose"]
                                    ELSE task[t]]
    <2>1. clean \in 0 .. Len(queue) /\ queue \in Seq(Ids)
      BY LeadDone DEF TypeOK
    <2>2. queue' = SubSeq(queue, clean + 1, Len(queue)) /\ task' = Live(queue', ts)
      BY <1>1 DEF RunTasks
    <2>3. ts \in [Ids -> Tasks]
      BY DEF TypeOK, Tasks
    <2> HIDE DEF clean, ts
    <2>4. queue' \in Seq(Ids)
      BY <2>1, <2>2
    <2>5. task' \in [Ids -> Tasks]
      BY <2>2, <2>3, LiveType
    <2> QED BY <1>1, <2>4, <2>5 DEF RunTasks, TypeOK
  <1>2. ASSUME NEW t \in Ids, Job(t)
        PROVE  TypeOK'
    <2>1. task' \in [Ids -> Tasks]
      <3>1. \A job \in {"write", "delete"} : [task EXCEPT ![t].job = job] \in [Ids -> Tasks]
        BY DEF TypeOK, Tasks
      <3> QED BY <1>2, <3>1, EndedType DEF Job, Choose, NoSource, CloseWriter, DeleteIncomplete
    <2>2. cache' \in [Segments -> Items]
      <3>1. \A item \in Items : [cache EXCEPT ![task[t].seg] = item] \in [Segments -> Items]
        BY DEF TypeOK
      <3>2. NoItem \in Items /\ Item("writing", t) \in Items /\ Item("good", 0) \in Items
            /\ Item("bad", 0) \in Items
        BY DEF Items, NoItem, Item
      <3>3. cache \in [Segments -> Items]
        BY DEF TypeOK
      <3> QED BY <1>2, <3>1, <3>2, <3>3 DEF Job, Choose, NoSource, CloseWriter, Closed, DeleteIncomplete
    <2> QED BY <1>2, <2>1, <2>2 DEF Job, Choose, CloseWriter, DeleteIncomplete, TypeOK
  <1>3. CASE ReadRound \/ Advance
    <2>1. reader' \in Readers /\ readHeight' \in Nat
      <3>1. CASE ReadRound
        BY <3>1 DEF ReadRound, Chunks, TypeOK, Readers
      <3>2. CASE Advance
        <4>1. reader.rh + 1 \in Nat
          BY DEF TypeOK, Readers
        <4>2. [reader EXCEPT !.pc = "add", !.rh = @ + 1] \in Readers
          BY <4>1 DEF TypeOK, Readers
        <4> QED BY <3>2, <4>1, <4>2, GotoType DEF Advance, TypeOK
      <3> QED BY <1>3, <3>1, <3>2
    <2> QED BY <1>3, <2>1 DEF ReadRound, Advance, TypeOK
  <1>4. CASE Read \/ AddChunkToBuffer
    <2>1. reader' \in Readers
      <3>1. CASE Read
        <4> DEFINE next == readHeight = reader.rh /\ reader.rh + 1 \in reader.seen
                   st == IF next THEN cache[reader.rh + 1].st ELSE "none"
        <4>1. next => st \in {"none", "writing", "good", "bad"}
          BY DEF TypeOK, Readers, Items
        <4>2. readable = TRUE \/ readable # TRUE
          OBVIOUS
        <4> QED BY <3>1, <4>1, GotoType DEF Read, Written
      <3>2. CASE AddChunkToBuffer
        BY <3>2, GotoType DEF AddChunkToBuffer
      <3> QED BY <1>4, <3>1, <3>2
    <2> QED BY <1>4, <2>1 DEF Read, AddChunkToBuffer, TypeOK
  <1>5. CASE ReadFailed
    <2>1. reader' \in Readers
      BY <1>5, GotoType DEF ReadFailed
    <2>2. cache' \in [Segments -> Items]
      BY <1>5 DEF ReadFailed, TypeOK, Items, NoItem
    <2> QED BY <1>5, <2>1, <2>2 DEF ReadFailed, TypeOK
  <1>6. CASE DownloadAgain
    <2>1. reader.rh + 1 \in Nat
      BY DEF TypeOK, Readers
    <2>2. queue' \in Seq(Ids) /\ task' \in [Ids -> Tasks]
      BY <1>6, <2>1, DownloadKeeps DEF DownloadAgain
    <2>3. reader' \in Readers
      BY <1>6, GotoType DEF DownloadAgain
    <2> QED BY <1>6, <2>2, <2>3 DEF DownloadAgain, TypeOK
  <1>7. CASE CleanCache
    BY <1>7 DEF CleanCache, TypeOK, Items, NoItem
  <1>8. CASE Peek \/ InsertChunks
    <2>1. reader' \in Readers
      BY <1>8, GotoType DEF Peek, InsertChunks, Pop, TypeOK
    <2> QED BY <1>8, <2>1 DEF Peek, InsertChunks, Pop, TypeOK
  <1>9. CASE Begin \/ CompareCache \/ Resume
    <2>1. reader' \in Readers
      BY <1>9, GotoType DEF Begin, CompareCache, Resume, TypeOK
    <2>2. loop' \in Loops
      <3>1. Missing \in SUBSET Nat
        BY DEF Missing, TypeOK, Loops
      <3> QED BY <1>9, <3>1 DEF Begin, CompareCache, Resume, TypeOK, Loops
    <2>3. readHeight' \in Nat
      BY <1>9 DEF Begin, CompareCache, Resume, TypeOK, Loops
    <2> QED BY <1>9, <2>1, <2>2, <2>3 DEF Begin, CompareCache, Resume, TypeOK
  <1>10. CASE Submit
    <2>1. loop' \in Loops
      BY <1>10 DEF Submit, TypeOK, Loops
    <2>2. Lowest(loop.todo) \in Nat
      BY <1>10, LowestIn DEF Submit, TypeOK, Loops
    <2>3. queue' \in Seq(Ids) /\ task' \in [Ids -> Tasks]
      <3>1. CASE CancelAllTasks
        BY <3>1, LiveType DEF CancelAllTasks, TypeOK
      <3>2. CASE Download(Lowest(loop.todo))
        BY <2>2, <3>2, DownloadKeeps
      <3> QED BY <1>10, <3>1, <3>2 DEF Submit
    <2> QED BY <1>10, <2>1, <2>3 DEF Submit, TypeOK
  <1>11. CASE NextWindow
    <2>1. loop' \in Loops
      BY <1>11, NewLoopType DEF NextWindow, TypeOK, Loops
    <2> QED BY <1>11, <2>1 DEF NextWindow, TypeOK
  <1>12. CASE Stuck \/ Done \/ Leave
    <2>1. StopSync /\ UNCHANGED <<head, loop>>
      BY <1>12 DEF Stuck, Done, Leave, StopAll
    <2>2. queue' \in Seq(Ids) /\ task' \in [Ids -> Tasks]
      BY <2>1, LiveType DEF StopSync, CancelAllTasks, TypeOK
    <2>3. readHeight' \in Nat /\ reader' \in Readers /\ cache' \in [Segments -> Items]
      BY <2>1, ResetType DEF StopSync
    <2> QED BY <2>1, <2>2, <2>3 DEF TypeOK
  <1>13. CASE Retry
    <2>1. readHeight' \in Nat /\ reader' \in Readers /\ cache' \in [Segments -> Items]
      BY <1>13, ResetType DEF Retry, TypeOK
    <2>2. loop' \in Loops
      BY <1>13, NewLoopType DEF Retry, TypeOK
    <2> QED BY <1>13, <2>1, <2>2 DEF Retry, TypeOK
  <1>14. CASE UNCHANGED syncVars
    BY <1>14 DEF syncVars, TypeOK
  <1> QED BY <1>1, <1>2, <1>3, <1>4, <1>5, <1>6, <1>7, <1>8, <1>9, <1>10, <1>11, <1>12, <1>13, <1>14
          DEF SyncNext, ReadLoop, Worker, DownloadLoop, Start
-----------------------------------------------------------------------------
(* No segment is forgotten *)

\* Every step keeps it that a window begins without tasks, and the first one in the chain.
LEMMA NextWindows ==
    ASSUME TypeOK, Windows, [SyncNext]_syncVars
    PROVE  Windows'
  <1> USE DEF fileVars, readVars, startVars, Windows
  <1>1. CASE Begin \/ CompareCache \/ Resume \/ NextWindow
    <2>1. loop'.pc # "begin"
      <3>1. CASE Begin \/ CompareCache \/ Resume
        BY <3>1 DEF Begin, CompareCache, Resume, TypeOK, Loops
      <3>2. CASE NextWindow
        BY <3>2 DEF NextWindow, NewLoop, TypeOK, Loops
      <3> QED BY <1>1, <3>1, <3>2
    <2>2. CASE Begin
      BY <2>1, <2>2 DEF Begin, TypeOK, Loops
    <2>3. CASE CompareCache \/ Resume
      <3>1. loop'.pc # "compare"
        BY <2>3 DEF CompareCache, Resume, TypeOK, Loops
      <3> QED BY <2>1, <3>1
    <2>4. CASE NextWindow
      <3>1. loop'.todo = {}
        BY <2>4 DEF NextWindow, NewLoop, TypeOK, Loops
      <3> QED BY <2>1, <3>1
    <2> QED BY <1>1, <2>2, <2>3, <2>4
  <1>2. CASE Submit
    BY <1>2 DEF Submit, TypeOK, Loops
  <1>3. CASE Retry
    BY <1>3 DEF Retry, NewLoop, TypeOK
  <1>4. CASE InsertChunks
    BY <1>4 DEF InsertChunks, TypeOK, Loops
  <1>5. CASE UNCHANGED <<loop, head>>
    BY <1>5
  <1> QED BY <1>1, <1>2, <1>3, <1>4, <1>5
          DEF SyncNext, ReadLoop, Worker, DownloadLoop, Start, Job, RunTasks, Choose, CloseWriter,
              DeleteIncomplete, ReadRound, Read, ReadFailed, DownloadAgain, Advance, AddChunkToBuffer,
              CleanCache, Peek, Stuck, Done, Leave, StopAll, syncVars

\* Tasks in the queue that are not done hold their segments while a goroutine of the executor
\* does something else than to close its writer.
LEMMA EndedKeeps ==
    ASSUME TypeOK, NEW t \in Ids, NEW st \in {"waiting", "error"}, Ended(t, st), UNCHANGED queue,
           NEW x \in Range(queue), task[x].st # "done"
    PROVE  task'[x].seg = task[x].seg /\ task'[x].st # "done"
  <1>1. x \in Ids
    BY RangeOfSeq DEF TypeOK
  <1> QED BY <1>1 DEF Ended, Live, TypeOK, Tasks

\* A task loses no segment but in the races that stalled records.
LEMMA JobHeld ==
    ASSUME TypeOK, NEW t \in Ids, Job(t), NEW c \in Segments, Kept(c), ~stalled'
    PROVE  Kept(c)'
  <1> USE DEF fileVars, readVars, startVars
  <1>0. Range(queue) \subseteq Ids
    BY RangeOfSeq DEF TypeOK
  <1>1. UNCHANGED <<head, queue, readHeight, reader, loop>>
    BY DEF Job, Choose, CloseWriter, DeleteIncomplete
  <1>2. CASE Choose(t)
    <2>1. \A x \in Range(queue) : task[x].st # "done" => task'[x].seg = task[x].seg /\ task'[x].st # "done"
      BY <1>0, <1>1, <1>2, EndedKeeps DEF Choose, NoSource, TypeOK, Tasks
    <2>2. c \in Chunks => c \in Chunks'
      BY <1>2 DEF Choose, NoSource, Chunks, Written, TypeOK, NoItem
    <2>3. cache[c] # NoItem => cache'[c] # NoItem
      BY <1>2 DEF Choose, NoSource, TypeOK, NoItem, Item
    <2> QED BY <1>1, <2>1, <2>2, <2>3 DEF Kept
  <1>3. CASE CloseWriter(t)
    <2>1. /\ cache[task[t].seg] = Item("writing", t)
          /\ \E st \in {"good", "bad"} : cache' = [cache EXCEPT ![task[t].seg] = Item(st, 0)]
      BY <1>3 DEF CloseWriter, Closed
    <2>2. c = task[t].seg => c \in Chunks'
      BY <2>1 DEF TypeOK, Chunks, Written, Item
    <2>3. c # task[t].seg => cache'[c] = cache[c]
      BY <2>1 DEF TypeOK
    <2>4. \A x \in Range(queue) : x # t => task'[x] = task[x]
      BY <1>0, <1>3 DEF CloseWriter, Ended, Live, TypeOK
    <2> QED BY <1>1, <2>2, <2>3, <2>4 DEF Kept, Chunks
  <1>4. CASE DeleteIncomplete(t)
    <2>1. t \in Range(queue) /\ cache' = [cache EXCEPT ![task[t].seg] = NoItem] /\ Ended(t, "error")
      BY <1>4 DEF DeleteIncomplete
    <2>2. task'[t].seg = task[t].seg /\ task'[t].st # "done"
      BY <2>1 DEF Ended, Live, TypeOK, Tasks
    <2>3. c # task[t].seg => cache'[c] = cache[c]
      BY <2>1 DEF TypeOK
    <2>4. \A x \in Range(queue) : task[x].st # "done" => task'[x].seg = task[x].seg /\ task'[x].st # "done"
      BY <1>1, <2>1, EndedKeeps
    <2> QED BY <1>1, <2>1, <2>2, <2>3, <2>4 DEF Kept, Chunks
  <1> QED BY <1>2, <1>3, <1>4 DEF Job

\* The loop of the executor loses no segment: it only removes tasks that are done.
LEMMA RunTasksHeld ==
    ASSUME TypeOK, NEW old \in BOOLEAN, RunTasks(old), NEW c \in Segments, Kept(c)
    PROVE  Kept(c)'
  <1> USE DEF fileVars, readVars, startVars
  <1> DEFINE clean == IF old /\ Lead > Len(queue) \div 5 THEN Lead ELSE 0
             ts == [t \in Ids |-> IF t \in Started[0, 0]
                                  THEN [task[t] EXCEPT !.st = "pending", !.job = "choose"]
                                  ELSE task[t]]
  <1>1. /\ clean \in 0 .. Len(queue) /\ queue \in Seq(Ids)
        /\ \A i \in 1 .. clean : task[queue[i]].st = "done"
    BY LeadDone DEF TypeOK
  <1>2. queue' = SubSeq(queue, clean + 1, Len(queue)) /\ task' = Live(queue', ts)
    BY DEF RunTasks
  <1> HIDE DEF clean
  <1>3. ASSUME NEW t \in Range(queue), task[t].st # "done"
        PROVE  t \in Ids /\ t \in Range(queue')
    <2>1. PICK i \in 1 .. Len(queue) : queue[i] = t
      BY <1>1 DEF Range
    <2>2. i \in clean + 1 .. Len(queue)
      BY <1>1, <1>3, <2>1
    <2>3. /\ queue' \in Seq(Ids) /\ Len(queue') = Len(queue) - clean
          /\ \A j \in 1 .. Len(queue) - clean : queue'[j] = queue[clean + j]
      <3>1. clean \in Nat /\ Len(queue) \in Nat /\ \A j \in clean + 1 .. Len(queue) : queue[j] \in Ids
        BY <1>1
      <3>2. /\ SubSeq(queue, clean + 1, Len(queue)) \in Seq(Ids)
            /\ Len(SubSeq(queue, clean + 1, Len(queue))) = Len(queue) - clean
            /\ \A j \in 1 .. Len(queue) - clean :
                  SubSeq(queue, clean + 1, Len(queue))[j] = queue[clean + j]
        BY <1>1, <3>1
      <3> QED BY <1>2, <3>2
    <2>4. i - clean \in DOMAIN queue' /\ queue'[i - clean] = t
      BY <1>1, <2>1, <2>2, <2>3
    <2> QED BY <1>1, <2>1, <2>4 DEF Range
  <1>4. ASSUME NEW t \in Range(queue), task[t].st # "done"
        PROVE  task'[t].seg = task[t].seg /\ task'[t].st # "done"
    BY <1>2, <1>3, <1>4 DEF Live, TypeOK, Tasks
  <1>5. UNCHANGED <<head, cache, readHeight, reader, loop>>
    BY DEF RunTasks
  <1> QED BY <1>3, <1>4, <1>5 DEF Kept, Chunks

\* The reader loses no segment: it goes on past what it has read, and asks again for what it
\* could not read.
LEMMA ReadLoopHeld ==
    ASSUME TypeOK, ReadLoop, NEW c \in Segments, Kept(c)
    PROVE  Kept(c)'
  <1> USE DEF fileVars, readVars, startVars
  <1>1. CASE ReadRound \/ Read \/ AddChunkToBuffer
    BY <1>1 DEF ReadRound, Read, AddChunkToBuffer, Kept, Chunks
  <1>2. CASE Advance
    BY <1>2 DEF Advance, Goto, NewRound, Kept, Chunks, TypeOK, Readers, Segments
  <1>3. CASE ReadFailed
    <2>1. CASE reader.rh + 1 = c
      <3>1. CASE cache[c] = NoItem
        BY <1>3, <2>1, <3>1 DEF ReadFailed, Goto, NewRound, Kept, Chunks, TypeOK, NoItem, Written
      <3>2. CASE cache[c] # NoItem
        BY <1>3, <2>1, <3>2 DEF ReadFailed, Goto, Kept, TypeOK, Readers
      <3> QED BY <3>1, <3>2
    <2>2. CASE reader.rh + 1 # c
      <3>1. cache'[c] = cache[c]
        BY <1>3, <2>2 DEF ReadFailed, TypeOK
      <3> QED BY <1>3, <2>2, <3>1 DEF ReadFailed, Kept, Chunks
    <2> QED BY <2>1, <2>2
  <1>4. CASE DownloadAgain
    <2>1. reader.rh + 1 \in Nat
      BY DEF TypeOK, Readers
    <2>2. /\ \E t \in Range(queue') : task'[t].seg = reader.rh + 1 /\ task'[t].st # "done"
          /\ \A t \in Range(queue) : task[t].seg = c => t \in Range(queue') /\ task'[t] = task[t]
      BY <1>4, <2>1, DownloadKeeps DEF DownloadAgain
    <2> QED BY <1>4, <2>2 DEF DownloadAgain, Kept, Chunks
  <1> QED BY <1>1, <1>2, <1>3, <1>4 DEF ReadLoop

\* No step of any goroutine forgets a segment below the cut of the download loop.
LEMMA NextHeld ==
    ASSUME TypeOK, Windows, Held, [SyncNext]_syncVars
    PROVE  Held'
  <1> SUFFICES ASSUME phase' = "syncing", ~canceled', NEW c \in Segments, ~(c > Cut'), ~stalled'
               PROVE  Kept(c)'
    BY DEF Held, Segments
  <1> USE DEF fileVars, readVars, startVars
  <1>0. c \in Nat /\ loop.start \in Nat /\ loop.end \in Nat /\ Cut \in Nat
    BY DEF Segments, TypeOK, Loops, Cut
  <1>h. ASSUME UNCHANGED <<phase, canceled, loop>>, stalled => stalled'
        PROVE  Kept(c)
    BY <1>h DEF Held, Cut
  <1>1. CASE \E old \in BOOLEAN : RunTasks(old)
    <2>1. Kept(c)
      <3>1. UNCHANGED <<phase, canceled, loop, stalled>>
        BY <1>1 DEF RunTasks
      <3> QED BY <3>1, <1>h
    <2> QED BY <1>1, <2>1, RunTasksHeld
  <1>2. CASE \E t \in Ids : Job(t)
    <2>1. Kept(c)
      <3>1. UNCHANGED <<phase, canceled, loop>>
        BY <1>2 DEF Job, Choose, CloseWriter, DeleteIncomplete
      <3>2. stalled => stalled'
        BY <1>2, Zenon DEF Job, Choose, NoSource, CloseWriter, Closed, DeleteIncomplete
      <3> QED BY <3>1, <3>2, <1>h
    <2> QED BY <1>2, <2>1, JobHeld
  <1>3. CASE ReadLoop
    <2>1. Kept(c)
      <3>1. UNCHANGED <<phase, canceled, loop>>
        BY <1>3 DEF ReadLoop, ReadRound, Read, ReadFailed, DownloadAgain, Advance, AddChunkToBuffer
      <3>2. stalled => stalled'
        BY <1>3, Zenon DEF ReadLoop, ReadRound, Read, ReadFailed, DownloadAgain, Advance, AddChunkToBuffer
      <3> QED BY <3>1, <3>2, <1>h
    <2> QED BY <1>3, <2>1, ReadLoopHeld
  <1>4. CASE CleanCache
    <2>1. Kept(c)
      BY <1>4, <1>h DEF CleanCache
    <2>2. c <= head \/ cache'[c] = cache[c]
      BY <1>0, <1>4 DEF CleanCache, TypeOK, Segments
    <2> QED BY <1>4, <2>1, <2>2 DEF CleanCache, Kept, Chunks
  <1>5. CASE Peek \/ InsertChunks
    <2>1. Kept(c)
      BY <1>5, <1>h DEF Peek, InsertChunks
    <2>2. head <= head' /\ head' \in Nat /\ head \in Nat
      BY <1>5 DEF Peek, InsertChunks, TypeOK
    <2>3. reader.pc \in {"failed", "again"} => reader' = reader
      BY <1>5 DEF Peek, InsertChunks, Pop, Signal
    <2> QED BY <1>0, <1>5, <2>1, <2>2, <2>3 DEF Peek, InsertChunks, Kept, Chunks
  <1>6. CASE Begin
    <2>1. c <= head
      BY <1>0, <1>6 DEF Begin, Windows, Cut, TypeOK, Loops
    <2> QED BY <1>6, <2>1 DEF Begin, Kept
  <1>7. CASE CompareCache
    <2>1. loop'.todo = Missing /\ Cut' = loop.end /\ UNCHANGED <<phase, canceled, cache, queue, task, head, reader, stalled>>
      BY <1>7 DEF CompareCache, Cut, TypeOK, Loops
    <2>2. CASE c > loop.start
      BY <1>0, <2>1, <2>2 DEF Missing, Kept, Chunks
    <2>3. CASE ~(c > loop.start)
      <3>1. Kept(c) /\ loop.todo = {}
        BY <1>7, <2>1, <2>3 DEF CompareCache, Held, Cut, Windows
      <3>2. c <= readHeight => c <= readHeight'
        BY <1>0, <1>7 DEF CompareCache, TypeOK, Segments
      <3> QED BY <2>1, <3>1, <3>2 DEF Kept, Chunks
    <2> QED BY <2>2, <2>3
  <1>8. CASE Resume
    <2>1. Kept(c)
      BY <1>8 DEF Resume, Held, Cut, TypeOK, Loops
    <2>2. reader.pc \in {"failed", "again"} => reader' = reader
      BY <1>8 DEF Resume, Signal
    <2> QED BY <1>8, <2>1, <2>2 DEF Resume, Kept, Chunks, TypeOK, Loops
  <1>9. CASE Submit
    <2>1. /\ loop.pc = "submit" /\ loop.todo # {} /\ Download(Lowest(loop.todo))
          /\ loop' = [loop EXCEPT !.todo = @ \ {Lowest(@)}]
      BY <1>9 DEF Submit
    <2>2. Kept(c)
      BY <1>9, <2>1 DEF Submit, Held, Cut, TypeOK, Loops
    <2>3. Lowest(loop.todo) \in Nat
      BY <2>1, LowestIn DEF TypeOK, Loops
    <2>4. /\ \E t \in Range(queue') : task'[t].seg = Lowest(loop.todo) /\ task'[t].st # "done"
          /\ \A t \in Range(queue) : task[t].seg = c => t \in Range(queue') /\ task'[t] = task[t]
      BY <2>1, <2>3, DownloadKeeps
    <2>5. loop'.todo = loop.todo \ {Lowest(loop.todo)}
      BY <2>1 DEF TypeOK, Loops
    <2> QED BY <1>9, <2>2, <2>4, <2>5 DEF Submit, Kept, Chunks
  <1>10. CASE NextWindow
    <2>1. Cut' = loop.end /\ Cut = loop.end /\ loop.todo = {}
      BY <1>10 DEF NextWindow, NewLoop, Cut, TypeOK, Loops
    <2>2. Kept(c)
      BY <1>10, <2>1 DEF NextWindow, Held
    <2> QED BY <1>10, <2>1, <2>2 DEF NextWindow, Kept, Chunks
  <1>11. CASE Stuck \/ Done \/ Leave
    BY <1>11 DEF Stuck, Done, Leave, StopAll, StopSync
  <1>12. CASE Retry
    <2>1. Cut' = head /\ UNCHANGED head
      BY <1>12 DEF Retry, NewLoop, Cut
    <2> QED BY <1>0, <2>1 DEF Kept, TypeOK
  <1>13. CASE UNCHANGED syncVars
    BY <1>13, <1>h DEF syncVars, Kept, Chunks
  <1> QED BY <1>1, <1>2, <1>3, <1>4, <1>5, <1>6, <1>7, <1>8, <1>9, <1>10, <1>11, <1>12, <1>13
          DEF SyncNext, Worker, DownloadLoop, Start

\* Whatever fails and however the goroutines interleave, a segment that the download loop has come
\* to is in the cache, in the executor, about to be downloaded again, or read, unless one of the
\* losses that stalled records happened.
THEOREM Coverage == SyncSpec => []NothingForgotten
  <1>1. SyncInit => IInv
    <2>1. SyncInit => Windows /\ Held
      <3> SUFFICES ASSUME SyncInit
                   PROVE  Windows /\ Held
        OBVIOUS
      <3>1. loop.pc = "begin" /\ loop.start = 1 /\ loop.todo = {} /\ head = 1
        BY DEF SyncInit, NewLoop
      <3>2. \A c \in Segments : c > 1
        BY SyncAssumption DEF Segments
      <3> QED BY <3>1, <3>2 DEF Windows, Held, Cut
    <2> QED BY <2>1, InitType DEF IInv
  <1>2. IInv /\ [SyncNext]_syncVars => IInv'
    BY NextType, NextWindows, NextHeld DEF IInv
  <1>3. IInv => NothingForgotten
    BY DEF IInv, Held, Cut, Kept, NothingForgotten, TypeOK, Loops, Segments
  <1> QED BY <1>1, <1>2, <1>3, PTL DEF SyncSpec
=============================================================================
