------------------------------ MODULE StateDB ------------------------------
(***************************************************************************)
(* The state database and its redo logs (ledger/chain/state), under the    *)
(* chain operations that write and roll back the ledger (ledger/chain      *)
(* insert.go, delete.go).                                                  *)
(*                                                                         *)
(* An account block writes a slot of its account: a token balance or a     *)
(* storage key.  The state database keeps the latest value of every slot   *)
(* and, for every snapshot block, the values its confirmed blocks left     *)
(* (the history).  The redo store keeps, for the last RetainHeight         *)
(* snapshot blocks, what the blocks they confirm wrote.  With it a         *)
(* rollback turns the blocks of the first deleted snapshot block back into *)
(* unconfirmed ones; without it the state is recovered from the history    *)
(* alone.                                                                  *)
(*                                                                         *)
(* The chain operations hold flushMu.RLock, so they are atomic for the     *)
(* flusher.  The flush is the one module Flusher shows the flusher to      *)
(* implement: both stores reach the disk together, or neither.             *)
(*                                                                         *)
(* Not modelled: contract code and meta data, logs, call depths (written   *)
(* once by a block, deleted with it) and the caches of the state database. *)
(***************************************************************************)
EXTENDS Naturals, Sequences, FiniteSets
LOCAL INSTANCE SequencesExt
LOCAL INSTANCE FiniteSetsExt

CONSTANTS Addr,
          Balance, Storage,  \* slots: token ids; storage keys, in byte order
          Value, Blank,      \* the values written; the empty byte string
          None, Keep, NoBatch,
          RetainHeight,      \* redo.retainHeight
          CacheGap,          \* redoCache.retainHeightGap
          DeleteAtOnce,      \* DeleteSnapshotBlocksToHeight.deleteAtOnce
          MaxHeight,         \* bound: height of the snapshot chain
          MaxBlocks,         \* bound: account blocks on the chain
          MaxRollbacks,      \* bound: rollbacks in a behaviour
          MaxFlushes,        \* bound: flushes started in a behaviour
          MaxCrashes         \* bound: crashes in a behaviour

ASSUME StateDBAssumption ==
    /\ Balance \cap Storage = {} /\ Storage \subseteq Nat
    /\ Blank \notin Value \cup {None, Keep}
    /\ {RetainHeight, CacheGap, DeleteAtOnce} \subseteq Nat \ {0}
    /\ CacheGap <= RetainHeight
    /\ {MaxHeight, MaxBlocks, MaxRollbacks, MaxFlushes, MaxCrashes} \subseteq Nat

Slot == Balance \cup Storage
Height == 0 .. MaxHeight + 1

\* Keys of the state store: the latest value of a slot, its value at a height.
Latest(a, s) == <<a, s, 0>>
History(a, s, h) == <<a, s, h>>
StateKey == Addr \X Slot \X Height

\* An account block; a LogItem of the redo log is a block without its address.
Block == [addr : Addr, height : 1 .. MaxBlocks, slot : Slot, value : Value \cup {Blank}]
ItemOf(b) == [height |-> b.height, slot |-> b.slot, value |-> b.value]
Hash(b) == <<b.addr, b.height>>
Hashes(blocks) == [i \in DOMAIN blocks |-> Hash(blocks[i])]

\* A SnapshotLog: the log items of each account, none for an absent account.
EmptyLog == [a \in Addr |-> <<>>]

S == INSTANCE Store WITH Key <- StateKey, Value <- Value \cup {Blank}
R == INSTANCE Store WITH Key <- Height, Value <- [Addr -> Seq([height : Nat, slot : Slot])]

VARIABLES
    chunks,     \* chunks[h]: the account blocks snapshot block h confirms
    pool,       \* cache.unconfirmedPool: unconfirmed blocks, oldest first
    state,      \* stateDB.store
    redo,       \* redo.store
    cache,      \* redo.cache.snapshotLogMap: the logs of some heights
    flushing,   \* "no", "prepared" or "committed"
    prepared,   \* history: chunks at the last Prepare
    durable,    \* history: chunks at the last Prepare that was committed
    rollbacks, flushes, crashes

vars == <<chunks, pool, state, redo, cache, flushing, prepared, durable,
          rollbacks, flushes, crashes>>

latest == Len(chunks)
AllBlocks == FlattenSeq(chunks) \o pool

\* NewStorageRedoWithStore, initCache: only the current height, with no log.
InitCache(ch) == [h \in {Len(ch) + 1} |-> EmptyLog]

\* A fresh ledger: the genesis snapshot block at height 1.
Init ==
    /\ chunks = << <<>> >> /\ pool = <<>>
    /\ state = S!NewStore(S!EmptyContent)
    /\ redo = R!NewStore([R!EmptyContent EXCEPT ![1] = EmptyLog])
    /\ cache = InitCache(chunks)
    /\ flushing = "no" /\ prepared = chunks /\ durable = chunks
    /\ rollbacks = 0 /\ flushes = 0 /\ crashes = 0
-----------------------------------------------------------------------------
(***************************************************************************)
(* Reading and writing slots.                                              *)
(***************************************************************************)
\* Writing the empty value to a storage key deletes it; a balance keeps it (zero).
Stored(s, v) == IF s \in Storage /\ v = Blank THEN None ELSE v

\* GetSnapshotValue and the seeks of the recover functions: the last entry of
\* the history up to height h, None if there is none.
SnapshotValue(view, a, s, h) ==
    LET found == {x \in 1 .. h : view[History(a, s, x)] # None} IN
    IF found = {} THEN None ELSE view[History(a, s, Max(found))]

\* A batch of the records in f, a function on some of the keys.
Records(f) == [k \in StateKey |-> IF k \in DOMAIN f THEN f[k] ELSE Keep]

SlotsOf(items) == {items[i].slot : i \in DOMAIN items}

\* Mutant: the first value the items write.
FirstValue(items, s) == items[Min({i \in DOMAIN items : items[i].slot = s})].value

\* parseRedoLog: the last value the items write to a slot they mention.
LastValue(items, s) == items[Max({i \in DOMAIN items : items[i].slot = s})].value

-----------------------------------------------------------------------------
(***************************************************************************)
(* The redo logs.                                                          *)
(***************************************************************************)
\* Redo.QueryLog.  HasRedo(h) is QueryLog(h).ok.
QueryLog(h) ==
    IF h \in DOMAIN cache THEN [log |-> cache[h], ok |-> TRUE]
    ELSE IF R!View(redo)[h] # None THEN [log |-> R!View(redo)[h], ok |-> TRUE]
    ELSE [log |-> EmptyLog, ok |-> R!View(redo)[h - 1] # None]

\* Mutant: an entry that is left over from before a rollback is kept.
CacheSetOnce(c, h, log) ==
    [x \in DOMAIN c \cup {h} |-> IF x \in DOMAIN c THEN c[x] ELSE log]

\* RedoCache.Set: the entry of height h is log.
CacheSet(c, h, log) ==
    [x \in DOMAIN c \cup {h} |-> IF x = h THEN log ELSE c[x]]

\* RedoCache.SetCurrent, with the heights it drops.
SetCurrent(c, h, log) ==
    LET set == CacheSet(c, h, log)
        full == Cardinality(DOMAIN set) > CacheGap /\ h > CacheGap
    IN  [x \in {y \in DOMAIN set : full => y > h - CacheGap} |-> set[x]]

\* Redo.InsertSnapshotBlock: the current log split at the last confirmed height
\* of each account, upTo[a].  The redo of height - RetainHeight is dropped.
ConfirmedLog(upTo) ==
    [a \in Addr |-> SelectSeq(cache[latest + 1][a], LAMBDA i : i.height <= upTo[a])]

\* Mutant: the last confirmed block stays in the log of the next height.
NextLogOffByOne(upTo) ==
    [a \in Addr |-> SelectSeq(cache[latest + 1][a], LAMBDA i : i.height >= upTo[a])]

NextLog(upTo) ==
    [a \in Addr |-> SelectSeq(cache[latest + 1][a], LAMBDA i : i.height > upTo[a])]

RedoBatch(h, log) ==
    [x \in Height |-> IF x = h THEN log
                      ELSE IF x > 0 /\ x + RetainHeight = h THEN None ELSE Keep]

-----------------------------------------------------------------------------
(***************************************************************************)
(* InsertAccountBlock: StateDB.Write of a block on top of its account.     *)
(***************************************************************************)
NextAccountHeight(a) == Len(SelectSeq(AllBlocks, LAMBDA b : b.addr = a)) + 1

\* StateDB.Write without the redo log, and WriteByRedo.
WriteBlock(st, a, item) ==
    S!WriteAccountBlock(st, S!Single(Latest(a, item.slot), Stored(item.slot, item.value)),
                        <<a, item.height>>)

InsertAccountBlock(a, s, v) ==
    LET b == [addr |-> a, height |-> NextAccountHeight(a), slot |-> s, value |-> v] IN
    /\ Len(AllBlocks) < MaxBlocks
    /\ pool' = Append(pool, b)
    /\ cache' = [cache EXCEPT ![latest + 1][a] = Append(@, ItemOf(b))]
    /\ state' = WriteBlock(state, a, ItemOf(b))
    /\ UNCHANGED <<chunks, redo, flushing, prepared, durable, rollbacks, flushes, crashes>>

(***************************************************************************)
(* insertSnapshotBlock: the unconfirmed blocks up to a height of each      *)
(* account are confirmed, and what they wrote last becomes the history of  *)
(* the new height.  The blocks that are no longer valid afterwards are     *)
(* deleted in a critical section of their own: a DeleteAccountBlocks step. *)
(***************************************************************************)
HistoryBatch(h, log) ==
    Records([k \in {History(a, s, h) : a \in Addr, s \in Slot} \cap
                   {k \in StateKey : k[2] \in SlotsOf(log[k[1]])} |->
                LastValue(log[k[1]], k[2])])

InsertSnapshotBlock(upTo) ==
    LET h == latest + 1
        confirmed == SelectSeq(pool, LAMBDA b : b.height <= upTo[b.addr])
        log == ConfirmedLog(upTo)
    IN
    /\ latest < MaxHeight
    /\ chunks' = Append(chunks, confirmed)
    /\ pool' = SelectSeq(pool, LAMBDA b : b.height > upTo[b.addr])
    /\ redo' = R!WriteDirectly(redo, RedoBatch(h, log))
    /\ cache' = SetCurrent(CacheSet(cache, h, log), h + 1, NextLog(upTo))
    /\ S!CanWriteSnapshot(state, Hashes(confirmed))
    /\ state' = S!WriteSnapshot(state, HistoryBatch(h, log), Hashes(confirmed))
    /\ UNCHANGED <<flushing, prepared, durable, rollbacks, flushes, crashes>>

-----------------------------------------------------------------------------
(***************************************************************************)
(* deleteAccountBlocks.  The blocks to delete are, per account, the        *)
(* unconfirmed blocks from a height on (computeDependencies closes the     *)
(* first deleted block under later blocks of its account and receivers of  *)
(* deleted sends).  The slots of the deleted blocks are recovered from the *)
(* remaining log of the accounts concerned, else from the history.         *)
(***************************************************************************)
RecoverLatest(remaining, deleted) ==
    [k \in {Latest(a, s) : a \in {x \in Addr : deleted[x] # <<>>}, s \in Slot} \cap
           {k \in StateKey : k[2] \in SlotsOf(deleted[k[1]]) \cup SlotsOf(remaining[k[1]])} |->
        Stored(k[2], IF k[2] \in SlotsOf(remaining[k[1]]) THEN LastValue(remaining[k[1]], k[2])
                     ELSE SnapshotValue(S!View(state), k[1], k[2], latest))]

DeleteAccountBlocks(from) ==
    LET deletedBlocks == SelectSeq(pool, LAMBDA b : b.height >= from[b.addr])
        log == QueryLog(latest + 1).log
        remaining == [a \in Addr |-> SelectSeq(log[a], LAMBDA i : i.height < from[a])]
        deleted == [a \in Addr |-> SelectSeq(log[a], LAMBDA i : i.height >= from[a])]
    IN
    /\ rollbacks < MaxRollbacks /\ rollbacks' = rollbacks + 1
    /\ deletedBlocks # <<>>
    /\ QueryLog(latest + 1).ok
    /\ pool' = SelectSeq(pool, LAMBDA b : b.height < from[b.addr])
    /\ cache' = SetCurrent(cache, latest + 1, remaining)
    /\ state' = S!RollbackAccountBlocks(state, Records(RecoverLatest(remaining, deleted)),
                                        Hashes(deletedBlocks))
    /\ UNCHANGED <<chunks, redo, flushing, prepared, durable, flushes, crashes>>

-----------------------------------------------------------------------------
(***************************************************************************)
(* deleteSnapshotBlocksToHeight, StateDB.RollbackSnapshotBlocks: the       *)
(* snapshot blocks from height `to' on, and the unconfirmed blocks.        *)
(***************************************************************************)
\* The logs of the deleted snapshot blocks, and of the unconfirmed blocks.
DeletedLogs(to) == [h \in to .. latest + (IF pool = <<>> THEN 0 ELSE 1) |-> QueryLog(h).log]

\* Mutant: the history of the deleted heights is kept.
RollbackByRedoKeepsHistory(to) ==
    LET logs == DeletedLogs(to) IN
    Records([k \in {k \in StateKey : /\ k[3] = 0
                                     /\ \E h \in DOMAIN logs : k[2] \in SlotsOf(logs[h][k[1]])} |->
        Stored(k[2], SnapshotValue(S!View(state), k[1], k[2], to - 1))])

\* rollbackByRedo deletes the history the logs mention, and
\* recoverLatestIndexToSnapshot recovers the latest value of their slots.
RollbackByRedo(to) ==
    LET logs == DeletedLogs(to)
        wrote(k, h) == k[2] \in SlotsOf(logs[h][k[1]])
        history == {k \in StateKey : k[3] \in to .. latest /\ wrote(k, k[3])}
        rolled == {k \in StateKey : k[3] = 0 /\ \E h \in DOMAIN logs : wrote(k, h)}
    IN
    Records([k \in history \cup rolled |->
        IF k \in history THEN None
        ELSE Stored(k[2], SnapshotValue(S!View(state), k[1], k[2], to - 1))])

\* Without redo: the accounts of the deleted blocks, the slots of an account that
\* have a history, the slots its unconfirmed blocks wrote.
DeletedAddrs(to) ==
    {b.addr : b \in ToSet(FlattenSeq(SubSeq(chunks, to, latest)) \o pool)}
WithHistory(a) ==
    {s \in Slot : \E h \in 1 .. MaxHeight : S!View(state)[History(a, s, h)] # None}
UnconfirmedSlots(a) ==
    IF pool = <<>> THEN {} ELSE SlotsOf(QueryLog(latest + 1).log[a])

\* recoverStorageToSnapshot stops at the first storage key of the account when
\* that key has no history up to the height: there is no previous entry.
StopsAtFirst(a, to) ==
    LET keys == WithHistory(a) \cap Storage IN
    /\ keys # {}
    /\ SnapshotValue(S!View(state), a, Min(keys), to - 1) = None

\* Slots whose latest value and history are recovered, and unconfirmed slots that
\* are deleted, by recoverStorageToSnapshot and recoverBalanceToSnapshot.
Recovered(a, to) ==
    WithHistory(a) \ (IF StopsAtFirst(a, to) THEN Storage ELSE {})
Dropped(a, to) ==
    UnconfirmedSlots(a) \ (Recovered(a, to) \cup
        (IF StopsAtFirst(a, to) THEN {Min(WithHistory(a) \cap Storage)} ELSE {}))

RecoverToSnapshot(to) ==
    LET index == {k \in StateKey : /\ k[1] \in DeletedAddrs(to)
                                   /\ \/ k[2] \in Recovered(k[1], to) /\ (k[3] = 0 \/ k[3] >= to)
                                      \/ k[2] \in Dropped(k[1], to) /\ k[3] = 0}
    IN
    Records([k \in index |->
        IF k[3] = 0 /\ k[2] \in Recovered(k[1], to)
        THEN Stored(k[2], SnapshotValue(S!View(state), k[1], k[2], to - 1))
        ELSE None])

\* The blocks of the first deleted snapshot block, written again from its log.
WriteByRedo(st, blocks, log) ==
    FoldLeft(LAMBDA acc, b : WriteBlock(acc, b.addr,
                 log[b.addr][b.height - log[b.addr][1].height + 1]), st, blocks)

DeleteSnapshotBlocks(to) ==
    LET first == QueryLog(to)
        newUnconfirmed == IF first.ok THEN chunks[to] ELSE <<>>
        batch == IF first.ok THEN RollbackByRedo(to) ELSE RecoverToSnapshot(to)
        gone == to .. latest
    IN
    /\ rollbacks < MaxRollbacks /\ rollbacks' = rollbacks + 1
    /\ chunks' = SubSeq(chunks, 1, to - 1)
    /\ pool' = newUnconfirmed
    /\ state' = WriteByRedo(S!RollbackSnapshot(state, batch), newUnconfirmed, first.log)
    /\ redo' = R!RollbackSnapshot(redo, [h \in Height |-> IF h \in gone THEN None ELSE Keep])
    /\ cache' = SetCurrent([h \in DOMAIN cache \ gone |-> cache[h]], to, first.log)
    /\ UNCHANGED <<flushing, prepared, durable, flushes, crashes>>

-----------------------------------------------------------------------------
(***************************************************************************)
(* The flush, and a crash, with what Flusher shows of them.                *)
(***************************************************************************)
Stores(SOp(_), ROp(_)) == state' = SOp(state) /\ redo' = ROp(redo)

Prepare ==
    /\ flushes < MaxFlushes /\ flushes' = flushes + 1
    /\ flushing = "no" /\ flushing' = "prepared"
    /\ Stores(S!Prepare, R!Prepare)
    /\ prepared' = chunks
    /\ UNCHANGED <<chunks, pool, cache, durable, rollbacks, crashes>>

CancelPrepare ==
    /\ flushing = "prepared" /\ flushing' = "no"
    /\ Stores(S!CancelPrepare, R!CancelPrepare)
    /\ UNCHANGED <<chunks, pool, cache, prepared, durable, rollbacks, flushes, crashes>>

Commit ==
    /\ flushing = "prepared" /\ flushing' = "committed"
    /\ Stores(S!Commit, R!Commit)
    /\ durable' = prepared
    /\ UNCHANGED <<chunks, pool, cache, prepared, rollbacks, flushes, crashes>>

AfterCommit ==
    /\ flushing = "committed" /\ flushing' = "no"
    /\ Stores(S!AfterCommit, R!AfterCommit)
    /\ UNCHANGED <<chunks, pool, cache, prepared, durable, rollbacks, flushes, crashes>>

\* The process ends and is started again on what is on disk.
Crash ==
    /\ crashes < MaxCrashes /\ crashes' = crashes + 1
    /\ chunks' = durable /\ pool' = <<>>
    /\ state' = S!NewStore(state.disk) /\ redo' = R!NewStore(redo.disk)
    /\ cache' = InitCache(durable)
    /\ flushing' = "no" /\ prepared' = durable
    /\ UNCHANGED <<durable, rollbacks, flushes>>

-----------------------------------------------------------------------------
\* A height for each account: one more than its confirmed blocks, or up to its last.
Cuts == [Addr -> 0 .. MaxBlocks + 1]
Confirmed(a) == Len(SelectSeq(FlattenSeq(chunks), LAMBDA b : b.addr = a))

Next ==
    \/ \E a \in Addr, s \in Slot, v \in Value \cup {Blank} : InsertAccountBlock(a, s, v)
    \/ \E upTo \in Cuts :
          /\ \A a \in Addr : upTo[a] \in Confirmed(a) .. NextAccountHeight(a) - 1
          /\ InsertSnapshotBlock(upTo)
    \/ \E from \in Cuts :
          /\ \A a \in Addr : from[a] \in Confirmed(a) + 1 .. NextAccountHeight(a)
          /\ DeleteAccountBlocks(from)
    \/ \E to \in 2 .. latest : latest + 1 - to <= DeleteAtOnce /\ DeleteSnapshotBlocks(to)
    \/ Prepare \/ CancelPrepare \/ Commit \/ AfterCommit
    \/ Crash

Spec == Init /\ [][Next]_vars

-----------------------------------------------------------------------------
(***************************************************************************)
(* Properties.                                                             *)
(***************************************************************************)
\* What a reader makes of an entry: an absent one reads as the empty value.
Visible(v) == IF v = None THEN Blank ELSE v

\* The value of a slot after a sequence of blocks.
ValueAfter(blocks, a, s) ==
    LET items == SelectSeq(blocks, LAMBDA b : b.addr = a /\ b.slot = s) IN
    IF items = <<>> THEN Blank ELSE Last(items).value

\* The log of a sequence of blocks.
LogOf(blocks) ==
    [a \in Addr |-> LET own == SelectSeq(blocks, LAMBDA b : b.addr = a)
                    IN  [i \in DOMAIN own |-> ItemOf(own[i])]]

\* Type invariant: the stores hold batches, unconfirmed blocks are blocks, and the
\* redo cache always has the log of the current height (RedoCache.AddLog writes it).
TypeOK ==
    /\ \A i \in DOMAIN AllBlocks : AllBlocks[i] \in Block
    /\ Len(chunks) \in 1 .. MaxHeight
    /\ state.disk \in S!Content /\ {state.memDb, state.snapshotBatch} \subseteq S!Batch
    /\ state.flushingBatch \in S!Batch \cup {NoBatch}
    /\ DOMAIN cache \subseteq Height /\ latest + 1 \in DOMAIN cache
    /\ flushing \in {"no", "prepared", "committed"}
    /\ (state.flushingBatch = NoBatch) = (flushing = "no")
    /\ rollbacks \in 0 .. MaxRollbacks /\ flushes \in 0 .. MaxFlushes
    /\ crashes \in 0 .. MaxCrashes

\* Whatever was inserted, confirmed, rolled back (by redo log or by history),
\* flushed and lost in a crash, the latest value of a slot is what the last block
\* of the ledger that wrote it wrote, unconfirmed blocks included.
ViewCorrect ==
    \A a \in Addr, s \in Slot :
        Visible(S!View(state)[Latest(a, s)]) = ValueAfter(AllBlocks, a, s)

\* The value of a slot at a snapshot block is what the blocks confirmed up to it
\* wrote last, for every snapshot block of the ledger, and the history has no entry
\* of a snapshot block that was rolled back.
HistoryCorrect ==
    \A a \in Addr, s \in Slot :
        /\ \A h \in 1 .. latest : Visible(SnapshotValue(S!View(state), a, s, h))
                                    = ValueAfter(FlattenSeq(SubSeq(chunks, 1, h)), a, s)
        /\ \A h \in latest + 1 .. MaxHeight : S!View(state)[History(a, s, h)] = None

\* What is on disk is the state of a snapshot block: an unconfirmed block, or one
\* that was rolled back before the flush, leaves no trace there, so that a restart
\* finds the state of the chain it restarts with.
DiskConfirmed ==
    \A a \in Addr, s \in Slot :
        Visible(state.disk[Latest(a, s)]) = ValueAfter(FlattenSeq(durable), a, s)

\* A redo log that QueryLog offers for a snapshot block is what the blocks it
\* confirms wrote, and the one of the next height is what the unconfirmed blocks
\* wrote; so a rollback by redo reverts exactly the deleted blocks.  A batch is
\* kept for each unconfirmed block, so WriteSnapshot and InsertSnapshotBlock of the
\* redo log never panic.
RedoMatches ==
    /\ \A h \in 1 .. latest : QueryLog(h).ok => QueryLog(h).log = LogOf(chunks[h])
    /\ QueryLog(latest + 1) = [log |-> LogOf(pool), ok |-> TRUE]
    /\ S!CanWriteSnapshot(state, Hashes(pool))
=============================================================================
