------------------------------- MODULE Store -------------------------------
(***************************************************************************)
(* One store of the chain database, ledger/chain/db (type Store): the      *)
(* operations on its memory side, and the ones the flusher calls, as       *)
(* operators from store to store.                                          *)
(*                                                                         *)
(* The batches of unconfirmed account blocks stay in memory until the      *)
(* block is confirmed by a snapshot block; only then do they go to         *)
(* snapshotBatch, and with it to disk.  memDb holds everything that is not *)
(* on disk yet, for the readers.                                           *)
(***************************************************************************)
EXTENDS Batches, Sequences
LOCAL INSTANCE SequencesExt
LOCAL INSTANCE Naturals

CONSTANT NoBatch

\* NewStoreWithDb, on a database with the given contents.
NewStore(disk) ==
    [disk |-> disk, memDb |-> EmptyBatch, snapshotBatch |-> EmptyBatch,
     flushingBatch |-> NoBatch, unconfirmed |-> <<>>]

\* Get: the memory table first, then the database.
View(st) == Replay(st.memDb, st.disk)

-----------------------------------------------------------------------------
(***************************************************************************)
(* UnconfirmedBatchs: a list, and a map from hash to the last element put  *)
(* under that hash.                                                        *)
(***************************************************************************)
ElementOf(list, hash) ==
    LET found == {i \in DOMAIN list : list[i].hash = hash} IN
    IF found = {} THEN 0 ELSE CHOOSE i \in found : \A j \in found : j <= i

RemoveBatch(list, hash) ==
    LET i == ElementOf(list, hash) IN
    IF i = 0 THEN list ELSE RemoveAt(list, i)

RemoveAll(list, hashes) == FoldLeft(RemoveBatch, list, hashes)

\* All: the batches one after the other on top of b.
ReplayAllOf(list, b) == FoldLeft(LAMBDA acc, e : Replay(e.batch, acc), b, list)

-----------------------------------------------------------------------------
WriteDirectly(st, b) ==
    [st EXCEPT !.memDb = Replay(b, @), !.snapshotBatch = Replay(b, @)]

\* Mutant: the batch of an unconfirmed block goes to disk with the next flush.
WriteAccountBlockDirectly(st, b, hash) ==
    [st EXCEPT !.memDb = Replay(b, @), !.snapshotBatch = Replay(b, @),
               !.unconfirmed = Append(@, [hash |-> hash, batch |-> b])]

WriteAccountBlock(st, b, hash) ==
    [st EXCEPT !.memDb = Replay(b, @),
               !.unconfirmed = Append(@, [hash |-> hash, batch |-> b])]

\* WriteSnapshotByHash panics when a confirmed block has no batch.
CanWriteSnapshot(st, hashes) ==
    \A i \in DOMAIN hashes : ElementOf(st.unconfirmed, hashes[i]) # 0

\* Mutant: the batches of the confirmed blocks are dropped.
WriteSnapshotOnly(st, b, hashes) ==
    [st EXCEPT !.memDb = Replay(b, @), !.snapshotBatch = Replay(b, @),
               !.unconfirmed = RemoveAll(@, hashes)]

WriteSnapshot(st, b, hashes) ==
    LET confirmed == [i \in DOMAIN hashes |->
                        st.unconfirmed[ElementOf(st.unconfirmed, hashes[i])]] IN
    [st EXCEPT !.memDb = Replay(b, @),
               !.snapshotBatch = Replay(b, ReplayAllOf(confirmed, @)),
               !.unconfirmed = RemoveAll(@, hashes)]

RollbackAccountBlocks(st, b, hashes) ==
    [st EXCEPT !.memDb = Replay(b, @), !.unconfirmed = RemoveAll(@, hashes)]

\* Mutant: the unconfirmed batches are kept for the next snapshot.
RollbackSnapshotNoClear(st, b) ==
    [st EXCEPT !.memDb = Replay(b, @),
               !.snapshotBatch = Replay(b, ReplayAllOf(st.unconfirmed, @))]

RollbackSnapshot(st, b) ==
    [st EXCEPT !.memDb = Replay(b, @),
               !.snapshotBatch = Replay(b, ReplayAllOf(st.unconfirmed, @)),
               !.unconfirmed = <<>>]

-----------------------------------------------------------------------------
Prepare(st) ==
    [st EXCEPT !.flushingBatch = st.snapshotBatch, !.snapshotBatch = EmptyBatch]

CancelPrepare(st) ==
    [st EXCEPT !.snapshotBatch = Replay(@, st.flushingBatch), !.flushingBatch = NoBatch]

Commit(st) == [st EXCEPT !.disk = Replay(st.flushingBatch, @)]

\* Mutant: the unconfirmed batches are not replayed on the new memory table.
AfterCommitSnapshotOnly(st) ==
    [st EXCEPT !.flushingBatch = NoBatch, !.memDb = st.snapshotBatch]

\* Mutant: the batch that was flushed is not released.
AfterCommitNoRelease(st) ==
    [st EXCEPT !.memDb = ReplayAllOf(st.unconfirmed, st.snapshotBatch)]

AfterCommit(st) ==
    [st EXCEPT !.flushingBatch = NoBatch,
               !.memDb = ReplayAllOf(st.unconfirmed, st.snapshotBatch)]
=============================================================================
