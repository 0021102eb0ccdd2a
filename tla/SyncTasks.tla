----------------------------- MODULE SyncTasks ------------------------------
(***************************************************************************)
(* Which chunks a synchronisation downloads: constructTasks and            *)
(* compareCache of net/sync_cache_reader.go, which cut the skeleton, a     *)
(* list of points (heights with the hashes and sizes of what is below),    *)
(* into tasks, around the chunks that are in the cache from before.        *)
(*                                                                         *)
(* A point is [h, size]; its hash is the one of the chain.  A chunk is     *)
(* [from, to, prev, last]: prev and last say whether PrevHash and Hash are *)
(* those of the chain.                                                     *)
(***************************************************************************)
EXTENDS Integers, Sequences
LOCAL INSTANCE SequencesExt
LOCAL INSTANCE FiniteSetsExt

CONSTANTS
    MaxHeight,    \* bound: the last height of the skeleton; it starts at 0
    Sizes,        \* of points
    MaxSnapshotChunksOneTask, MaxSizeOneTask

VARIABLES points, chunks, tasks, deleted, done
taskVars == <<points, chunks, tasks, deleted, done>>
----------------------------------------------------------------------------
\* The segment under construction and the tasks cut so far.  hasChunkInSeg is
\* never reset: it is true from the second point on.
Cut(hhs, i, s) ==
    LET hp   == hhs[i]
        size == s.size + hp.size
        to   == IF i = 2 THEN hp.h ELSE s.to
        cut  == hp.h - s.from + 1 > MaxSnapshotChunksOneTask \/ size > MaxSizeOneTask
    IN  IF cut THEN [ts |-> Append(s.ts, [from |-> s.from, to |-> to]),
                     from |-> to + 1, to |-> hp.h, size |-> hp.size]
        ELSE [s EXCEPT !.to = hp.h, !.size = size]

constructTasks(hhs) ==
    LET s == FoldLeft(LAMBDA r, i : IF i = 1 THEN r ELSE Cut(hhs, i, r),
                      [ts |-> <<>>, from |-> hhs[1].h + 1, to |-> 0, size |-> 0],
                      [i \in DOMAIN hhs |-> i])
    IN  Append(s.ts, [from |-> s.from, to |-> Last(hhs).h])

\* the chunks between the ends of the skeleton
InRange(cs, hhs) == SelectSeq(cs, LAMBDA c : c.to > hhs[1].h /\ c.from <= Last(hhs).h)

\* mutant: index moves past the point at the end of the chunk
ScanPast(s, c, hhs) ==
    LET ahead   == {i \in s.index..Len(hhs) : hhs[i].h >= c.to}
        next    == IF ahead = {} THEN Len(hhs) + 1 ELSE Min(ahead)
        scanned == {hhs[i].h : i \in s.index..Min({next, Len(hhs)})}
        ok      == c.prev /\ c.from - 1 \in scanned /\ c.last /\ c.to \in scanned
    IN  [index |-> next + 1, valid |-> IF ok THEN Append(s.valid, c) ELSE s.valid]

\* One step of the choice of valid chunks: index stays at the first point that
\* is not below the end of the chunk.
Scan(s, c, hhs) ==
    LET ahead   == {i \in s.index..Len(hhs) : hhs[i].h >= c.to}
        next    == IF ahead = {} THEN Len(hhs) + 1 ELSE Min(ahead)
        scanned == {hhs[i].h : i \in s.index..Min({next, Len(hhs)})}
        ok      == c.prev /\ c.from - 1 \in scanned /\ c.last /\ c.to \in scanned
    IN  [index |-> next, valid |-> IF ok THEN Append(s.valid, c) ELSE s.valid]

\* continuous chunks as one
Merge(cs) == FoldLeft(LAMBDA m, c : IF m # <<>> /\ Last(m).to + 1 = c.from
                                    THEN [m EXCEPT ![Len(m)].to = c.to] ELSE Append(m, c),
                      <<>>, cs)

\* the tasks between the chunks of m
Between(hhs, m) ==
    LET step(s, i) ==
          LET h     == hhs[i].h
              start == IF s.in THEN i ELSE s.start
              c     == {x \in ToSet(m) : x.from - 1 = h}
          IN  IF h < s.end THEN s
              ELSE IF c = {} THEN [s EXCEPT !.start = start, !.in = FALSE]
              ELSE [ts |-> IF i > 1 THEN s.ts \o constructTasks(SubSeq(hhs, start, i)) ELSE s.ts,
                    start |-> start, in |-> TRUE, end |-> (CHOOSE x \in c : TRUE).to]
        r == FoldLeft(step, [ts |-> <<>>, start |-> 1, in |-> FALSE, end |-> 0],
                      [i \in DOMAIN hhs |-> i])
    IN  r.ts \o constructTasks(SubSeq(hhs, r.start, Len(hhs)))

compareCache(cs, hhs) ==
    LET valid == FoldLeft(LAMBDA s, c : Scan(s, c, hhs), [index |-> 1, valid |-> <<>>],
                           InRange(cs, hhs)).valid
    IN  /\ tasks' = IF valid = <<>> THEN constructTasks(hhs) ELSE Between(hhs, Merge(valid))
        /\ deleted' = ToSet(InRange(cs, hhs)) \ ToSet(valid)

\* cacheReader.compareCache
Compare ==
    /\ ~done /\ done' = TRUE
    /\ IF chunks = <<>> \/ Head(chunks).from >= Last(points).h \/ Last(chunks).to <= points[1].h
       THEN tasks' = constructTasks(points) /\ deleted' = {}
       ELSE compareCache(chunks, points)
    /\ UNCHANGED <<points, chunks>>

\* The inputs: any points above 0, any two chunks that do not overlap.
Skeletons == UNION {{<<[h |-> 0, size |-> 0]>>
                      \o SetToSortSeq({[h |-> h, size |-> f[h]] : h \in H}, LAMBDA x, y : x.h < y.h) :
                        f \in [H -> Sizes]} : H \in SUBSET (1..MaxHeight) \ {{}}}
Chunk  == {c \in [from : 1..MaxHeight, to : 1..MaxHeight, prev : BOOLEAN, last : BOOLEAN] :
             c.from <= c.to}
Caches == {<<>>} \cup {<<c>> : c \in Chunk}
          \cup {cd \in Chunk \X Chunk : cd[1].to < cd[2].from}

TasksInit == /\ points \in Skeletons /\ chunks \in Caches
        /\ tasks = <<>> /\ deleted = {} /\ done = FALSE
TasksNext == Compare
TasksSpec == TasksInit /\ [][TasksNext]_taskVars
----------------------------------------------------------------------------
(* Properties *)

Heights(hhs) == {hhs[i].h : i \in DOMAIN hhs}
Span(x) == x.from..x.to
NotEmpty == {i \in DOMAIN tasks : Span(tasks[i]) # {}}

\* The chunks with the right hashes at points are kept and every other one that
\* the skeleton meets is deleted; the tasks, which begin and end at points, fill
\* exactly the heights that the kept chunks leave, none twice.  So no height is
\* left out and no task overlaps a chunk of the cache, which would refuse to
\* write it.  (Not so when the first chunk begins at the last point: compareCache
\* then leaves it, sync_cache_reader.go:506.  Tasks without heights are skipped
\* by download.)
TasksCover ==
    done =>
      LET goal == 1..Last(points).h
          met  == {c \in ToSet(chunks) : Span(c) \cap goal # {}}
          kept == {c \in met : c.prev /\ c.last /\ {c.from - 1, c.to} \subseteq Heights(points)}
      IN  /\ \A i \in NotEmpty : {tasks[i].from - 1, tasks[i].to} \subseteq Heights(points)
          /\ \A i, j \in NotEmpty : i < j => tasks[i].to < tasks[j].from
          /\ \/ /\ deleted = met \ kept
                /\ UNION {Span(tasks[i]) : i \in NotEmpty} = goal \ UNION {Span(c) : c \in kept}
             \/ /\ chunks # <<>> /\ Head(chunks).from = Last(points).h
                /\ UNION {Span(tasks[i]) : i \in NotEmpty} = goal
=============================================================================
