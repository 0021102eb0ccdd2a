------------------------------- MODULE Onroad -------------------------------
(***************************************************************************)
(* Sends on the road: the index database (ledger/chain/index) and the      *)
(* onroad pool of the contracts (ledger/onroad, ledger/onroad/pool), under *)
(* the chain operations that insert, confirm and roll back blocks.         *)
(*                                                                         *)
(* A user block is a send or a receive.  A contract block is a receive and *)
(* carries the sends the contract makes while it runs.  A send is on the   *)
(* road until its receiver takes it.  The index keeps this on disk, the    *)
(* pool keeps it a second time for the contracts, by caller and in order:  *)
(* the verifier lets a contract receive only the front send of a caller.   *)
(*                                                                         *)
(* The pool follows the chain by its events, after an insertion and before *)
(* a deletion, and is built again from the index when the node starts.     *)
(* The index does not know the place of a send in its block, so the        *)
(* entries of contract callers come back without it, and a reader fills it *)
(* in later: it reads the entries under one lock and writes them under     *)
(* another.                                                                *)
(*                                                                         *)
(* Not modelled: contract creation (the contracts exist), the callers map  *)
(* of the storage, account ids, the index of snapshot blocks.              *)
(***************************************************************************)
EXTENDS Integers, Sequences, FiniteSets
LOCAL INSTANCE SequencesExt
LOCAL INSTANCE FiniteSetsExt
LOCAL INSTANCE TLC

CONSTANTS Users, Contracts,
          Targets,       \* Targets[a]: the addresses a may send to
          None, Keep, NoBatch,
          MaxSends,      \* bound: sends of a contract block
          MaxBlocks,     \* bound: account blocks on the chain
          MaxLength,     \* bound: blocks of an account
          MaxHeight,     \* bound: height of the snapshot chain
          MaxRollbacks, MaxFlushes, MaxCrashes

Addr == Users \cup Contracts
Heights == 1 .. MaxLength

\* A send: the i-th (from 0) of block h of account `by'.  A send of a contract
\* takes its hash from its place and not from what its block receives.
Send == {s \in [by : Addr, h : Heights, i : 0 .. MaxSends - 1, to : Addr] :
            s.to \in Targets[s.by] /\ (s.by \in Users => s.i = 0)}
NoSend == [by |-> "", h |-> 0, i |-> 0, to |-> ""]
Nil == -1   \* FromIndex, a nil pointer

\* An account block [acc, h, from, sends]; a send block receives NoSend.
IsSendBlock(b) == b.from = NoSend
SendsOf(b) == {[by |-> b.acc, h |-> b.h, i |-> i - 1, to |-> b.sends[i]] : i \in DOMAIN b.sends}
Sent(blocks) == UNION {SendsOf(b) : b \in blocks}
Received(blocks) == {b.from : b \in blocks} \ {NoSend}

OnRoadKey(s) == <<"onroad", s>>
ReceiveKey(s) == <<"receive", s>>
HashKey(s) == <<"hash", s>>
HeightKey(b) == <<"height", b.acc, b.h>>
ConfirmKey(a, h) == <<"confirm", a, h>>
IndexKey == ({"onroad", "receive", "hash"} \X Send) \cup ({"height", "confirm"} \X Addr \X Heights)

Unreceived == <<>>   \* unreceivedFlag
Present == TRUE

I == INSTANCE Store WITH Key <- IndexKey, Value <- {}

VARIABLES
    chunks,     \* chunks[h]: the account blocks snapshot block h confirms
    pool,       \* the unconfirmed blocks, oldest first
    index,      \* indexDB.store
    cache,      \* indexDB.cache
    storage,    \* onroadStorage: the records [send, h, i]
    reading,    \* the records a reader has read and not updated yet
    durable,    \* history: chunks at the last flush
    rollbacks, flushes, crashes

vars == <<chunks, pool, index, cache, storage, reading, durable,
          rollbacks, flushes, crashes>>

latest == Len(chunks)
Chain == UNION {ToSet(chunks[h]) : h \in DOMAIN chunks} \cup ToSet(pool)
NoCache == [k \in IndexKey |-> None]

Init ==
    /\ chunks = << <<>> >> /\ pool = <<>>
    /\ index = I!NewStore(I!EmptyContent) /\ cache = NoCache
    /\ storage = {} /\ reading = {}
    /\ durable = chunks
    /\ rollbacks = 0 /\ flushes = 0 /\ crashes = 0
-----------------------------------------------------------------------------
(***************************************************************************)
(* The batches of the index database.                                      *)
(***************************************************************************)
Records(f) == [k \in IndexKey |-> IF k \in DOMAIN f THEN f[k] ELSE Keep]

\* The records of a batch for the keys of some kinds: what goes to the cache.
OfKinds(f, kinds) == Records([k \in {x \in DOMAIN f : x[1] \in kinds} |-> f[k]])

Entry(b, located) == [block |-> b, located |-> located]

\* insertReceiveInfo, insertAbHashHeight and insertOnRoad of new sends.
Opened(sends) ==
    [k \in {"onroad", "receive", "hash"} \X sends |->
        IF k[1] = "receive" THEN Unreceived ELSE Present]

\* The send a receive block takes off the road.
Closed(b) ==
    IF IsSendBlock(b) THEN <<>>
    ELSE ReceiveKey(b.from) :> <<b.acc, b.h>> @@ OnRoadKey(b.from) :> None

\* IndexDB.insertAccountBlock
InsertRecords(b) ==
    HeightKey(b) :> Entry(b, FALSE) @@ Closed(b) @@ Opened(SendsOf(b))

IndexInsert(st, b) == I!WriteAccountBlock(st, Records(InsertRecords(b)), <<b.acc, b.h>>)
CacheInsert(c, b) == I!Replay(OfKinds(InsertRecords(b), {"receive", "hash"}), c)

\* The SnapshotContent that confirms these blocks: the last height of each account.
ContentKeys(blocks) ==
    {ConfirmKey(b.acc, b.h) : b \in {x \in ToSet(blocks) :
        \A y \in ToSet(blocks) : y.acc = x.acc => y.h <= x.h}}

\* IndexDB.InsertSnapshotBlock
SnapshotRecords(h, confirmed) ==
    [k \in ContentKeys(confirmed) |-> h]
    @@ [k \in {HeightKey(b) : b \in ToSet(confirmed)} |->
           Entry(CHOOSE b \in ToSet(confirmed) : HeightKey(b) = k, TRUE)]

\* Mutant: a send that is rolled back together with its receive is put on the road.
DeleteBlockReopens(acc, b) ==
    LET sends == SendsOf(b)
        deleted == HeightKey(b) :> None @@ [k \in {"hash"} \X sends |-> None]
        received == IF IsSendBlock(b) THEN <<>>
                    ELSE OnRoadKey(b.from) :> Present @@ ReceiveKey(b.from) :> Unreceived
    IN  [open |-> (acc.open \ {b.from}) \cup sends,
         records |-> deleted @@ received @@ acc.records]

\* IndexDB.deleteAccountBlocks, one block: open is openSendBlock, the sends whose
\* receive has not come yet, records the batch so far.
DeleteBlock(acc, b) ==
    LET sends == SendsOf(b)
        deleted == HeightKey(b) :> None @@ [k \in {"hash"} \X sends |-> None]
        received == IF IsSendBlock(b) THEN <<>>
                    ELSE IF b.from \in acc.open THEN ReceiveKey(b.from) :> None
                    ELSE OnRoadKey(b.from) :> Present @@ ReceiveKey(b.from) :> Unreceived
    IN  [open |-> (acc.open \ {b.from}) \cup sends,
         records |-> deleted @@ received @@ acc.records]

\* IndexDB.rollback of the blocks, without the snapshot blocks.
RollbackRecords(blocks) ==
    LET done == FoldLeft(DeleteBlock, [open |-> {}, records |-> <<>>], blocks)
    IN  [k \in {"onroad", "receive"} \X done.open |-> None] @@ done.records

CacheRollback(c, blocks) ==
    I!Replay(OfKinds(RollbackRecords(blocks), {"receive", "hash", "height"}), c)
-----------------------------------------------------------------------------
(***************************************************************************)
(* The onroad pool.                                                        *)
(***************************************************************************)
\* LedgerBlockToOnRoad: a send of a contract has the height of the block it is in.
OnRoad(s) == [send |-> s, h |-> s.h, i |-> s.i]

Pooled(sends) == {OnRoad(s) : s \in {x \in sends : x.to \in Contracts}}
SameKey(x, y) == x.send = y.send /\ x.h = y.h
Without(st, txs) == {x \in st : \A y \in txs : ~SameKey(x, y)}

\* Manager.InsertAccountBlocks and PrepareDeleteAccountBlocks: a send and its
\* receive in the same list cancel out (ExcludePairTrades).
PoolInsert(st, b) ==
    Without(st, Pooled(Received({b}) \cup Sent({b}))) \cup Pooled(Sent({b}))

PoolDelete(st, blocks) ==
    LET all == ToSet(blocks)
        unsent == Pooled(Sent(all) \ Received(all))
        unreceived == Pooled(Received(all) \ Sent(all))
    IN  Without(st, unsent \cup unreceived) \cup unreceived

\* loadOnRoad: what the index has on the road, contract callers without the place.
LoadOnRoad(view) ==
    {[send |-> s, h |-> s.h, i |-> IF s.by \in Contracts THEN Nil ELSE 0] :
        s \in {x \in Send : /\ x.to \in Contracts
                            /\ view[OnRoadKey(x)] # None /\ view[HashKey(x)] # None}}

\* getFirstOnroadTx: the records of the lowest height of a caller.
FirstOnroadTx(c, caller) ==
    LET all == {x \in storage : x.send.to = c /\ x.send.by = caller}
    IN  {x \in all : \A y \in all : x.h <= y.h}

Dirty(txs) == {x \in txs : x.i = Nil}

\* Mutant: records are written whether they still exist or not.
LazyUpdatedBlindly(txs) ==
    LET found == {x \in Dirty(txs) : x.send \in Sent(Chain)}
    IN  Without(storage, found) \cup {OnRoad(x.send) : x \in found}

\* lazyUpdateFrontTx: the place of the dirty records, from the block they are in.
\* updateFromIndex refuses a record that is gone, and the update stops there.
LazyUpdated(txs) ==
    LET dirty == {x \in Dirty(txs) : x.send \in Sent(Chain)}
        gone == {x \in dirty : \A y \in storage : ~SameKey(x, y)}
        found == {x \in dirty : \A y \in gone : x.send.i < y.send.i}
    IN  Without(storage, found) \cup {OnRoad(x.send) : x \in found}

\* Mutant: any record of the lowest height is a front.
IsOfFrontHeight(s) == \E x \in FirstOnroadTx(s.to, s.by) : x.send = s

\* orHeightValue.minTx, once the places are known.
IsFrontOnRoadOfCaller(s) ==
    LET first == FirstOnroadTx(s.to, s.by)
    IN  \E x \in first : x.send = s /\ \A y \in first : s.i <= y.send.i
-----------------------------------------------------------------------------
NextHeight(a) == Cardinality({b \in Chain : b.acc = a}) + 1

\* AccountVerifier.verifyDependency of a receive.
IsReceived(s) ==
    LET v == IF cache[ReceiveKey(s)] # None THEN cache[ReceiveKey(s)]
             ELSE I!View(index)[ReceiveKey(s)]
    IN  v \notin {None, Unreceived}

CanReceive(a, s) ==
    /\ s \in Sent(Chain) /\ s.to = a
    /\ ~IsReceived(s)
    /\ a \in Contracts => IsFrontOnRoadOfCaller(s)

\* chain.InsertAccountBlock of a verified block, with the event that follows it.
Insert(b) ==
    /\ Cardinality(Chain) < MaxBlocks /\ b.h <= MaxLength
    /\ pool' = Append(pool, b)
    /\ index' = IndexInsert(index, b) /\ cache' = CacheInsert(cache, b)
    /\ UNCHANGED <<chunks, reading, durable, rollbacks, flushes, crashes>>

InsertSend(a, to) ==
    LET b == [acc |-> a, h |-> NextHeight(a), from |-> NoSend, sends |-> <<to>>] IN
    /\ Insert(b)
    /\ storage' = PoolInsert(storage, b)

InsertReceive(a, s, sends) ==
    LET b == [acc |-> a, h |-> NextHeight(a), from |-> s, sends |-> sends] IN
    /\ CanReceive(a, s)
    /\ Insert(b)
    /\ storage' = PoolInsert(IF a \in Contracts THEN LazyUpdated(FirstOnroadTx(a, s.by))
                             ELSE storage, b)

\* insertSnapshotBlock.  A producer confirms a prefix of its unconfirmed blocks
\* (GetContentNeedSnapshot): with a receive its send, with a block the ones below.
Closure(blocks, among) ==
    \A b \in blocks, x \in among :
        (x.acc = b.acc /\ x.h < b.h) \/ b.from \in SendsOf(x) => x \in blocks

InsertSnapshotBlock(set) ==
    LET confirmed == SelectSeq(pool, LAMBDA b : b \in set)
        records == SnapshotRecords(latest + 1, confirmed)
    IN
    /\ latest < MaxHeight
    /\ Closure(set, ToSet(pool))
    /\ chunks' = Append(chunks, confirmed)
    /\ pool' = SelectSeq(pool, LAMBDA b : b \notin set)
    /\ index' = I!WriteSnapshot(index, Records(records),
                                [i \in DOMAIN confirmed |-> <<confirmed[i].acc, confirmed[i].h>>])
    /\ cache' = I!Replay(OfKinds(records, {"height"}), cache)
    /\ UNCHANGED <<storage, reading, durable, rollbacks, flushes, crashes>>

\* deleteAccountBlocks: unconfirmed blocks, with the ones that depend on them.
DeleteAccountBlocks(set) ==
    LET deleted == SelectSeq(pool, LAMBDA b : b \in set) IN
    /\ rollbacks < MaxRollbacks /\ rollbacks' = rollbacks + 1
    /\ set # {} /\ Closure(ToSet(pool) \ set, ToSet(pool))
    /\ storage' = PoolDelete(storage, deleted)
    /\ index' = I!RollbackAccountBlocks(index, Records(RollbackRecords(deleted)),
                                        [i \in DOMAIN deleted |-> <<deleted[i].acc, deleted[i].h>>])
    /\ cache' = CacheRollback(cache, deleted)
    /\ pool' = SelectSeq(pool, LAMBDA b : b \notin set)
    /\ UNCHANGED <<chunks, reading, durable, flushes, crashes>>

\* deleteSnapshotBlocksToHeight.  With a redo log of the first deleted snapshot
\* block its blocks become unconfirmed: they stay in the pool, and the index
\* deletes them and inserts them again.
DeleteSnapshotBlocks(to, hasRedo) ==
    LET gone == FlattenSeq(SubSeq(chunks, to, latest)) \o pool
        newUnconfirmed == IF hasRedo THEN chunks[to] ELSE <<>>
        confirms == UNION {ContentKeys(chunks[h]) : h \in to .. latest}
        batch == Records([k \in confirms |-> None] @@ RollbackRecords(gone))
    IN
    /\ rollbacks < MaxRollbacks /\ rollbacks' = rollbacks + 1
    /\ storage' = PoolDelete(storage, SelectSeq(gone, LAMBDA b : b \notin ToSet(newUnconfirmed)))
    /\ index' = FoldLeft(IndexInsert, I!RollbackSnapshot(index, batch), newUnconfirmed)
    /\ cache' = FoldLeft(CacheInsert, CacheRollback(cache, gone), newUnconfirmed)
    /\ chunks' = SubSeq(chunks, 1, to - 1) /\ pool' = newUnconfirmed
    /\ UNCHANGED <<reading, durable, flushes, crashes>>
-----------------------------------------------------------------------------
(***************************************************************************)
(* A restart, the flush, and a reader of the pool.                         *)
(***************************************************************************)
\* The process starts on what is on disk.
Restart ==
    /\ chunks' = durable /\ pool' = <<>>
    /\ index' = I!NewStore(index.disk) /\ cache' = NoCache
    /\ storage' = LoadOnRoad(index.disk) /\ reading' = {}
    /\ UNCHANGED <<durable, rollbacks, flushes>>

\* Bound: a crash before the first flush would only go back to Init.
Crash == flushes > 0 /\ crashes < MaxCrashes /\ crashes' = crashes + 1 /\ Restart

\* A flush, when there is something to write.  Module Flusher shows that it is
\* atomic for crashes and readers.
Flush ==
    /\ chunks # durable
    /\ flushes < MaxFlushes /\ flushes' = flushes + 1
    /\ index' = I!AfterCommit(I!Commit(I!Prepare(index))) /\ durable' = chunks
    /\ UNCHANGED <<chunks, pool, cache, storage, reading, rollbacks, crashes>>

\* getFrontTxByCaller, of a worker or an RPC call; only dirty records matter later.
ReadFront(c, caller) ==
    /\ reading = {} /\ Dirty(FirstOnroadTx(c, caller)) # {}
    /\ reading' = FirstOnroadTx(c, caller)
    /\ UNCHANGED <<chunks, pool, index, cache, storage, durable,
                   rollbacks, flushes, crashes>>

\* lazyUpdateFrontTx of what was read.  It looks for the block of any one dirty
\* record, which may be rolled back by now: the code uses the missing block, and
\* the process ends.
LazyUpdateFront ==
    \E x \in Dirty(reading) :
        \/ /\ x.send \in Sent(Chain)
           /\ storage' = LazyUpdated(reading) /\ reading' = {}
           /\ UNCHANGED <<chunks, pool, index, cache, durable,
                          rollbacks, flushes, crashes>>
        \/ /\ x.send \notin Sent(Chain)
           /\ Restart /\ UNCHANGED crashes
-----------------------------------------------------------------------------
Next ==
    \/ \E a \in Users : \E to \in Targets[a] : InsertSend(a, to)
    \/ \E s \in Sent(Chain) : \E sends \in SeqOf(Targets[s.to], MaxSends) :
          (s.to \in Users => sends = <<>>) /\ InsertReceive(s.to, s, sends)
    \/ \E set \in SUBSET ToSet(pool) : InsertSnapshotBlock(set) \/ DeleteAccountBlocks(set)
    \/ \E to \in 2 .. latest, hasRedo \in BOOLEAN : DeleteSnapshotBlocks(to, hasRedo)
    \/ Flush \/ Crash
    \/ \E c \in Contracts, caller \in Addr : ReadFront(c, caller)
    \/ LazyUpdateFront

Spec == Init /\ [][Next]_vars
-----------------------------------------------------------------------------
(***************************************************************************)
(* Properties.                                                             *)
(***************************************************************************)
Before(s, t) == s.h < t.h \/ (s.h = t.h /\ s.i < t.i)

\* GetConfirmHeightByHash: the first confirmed height of the account from b on.
ConfirmHeight(view, b) ==
    LET found == {h \in Heights : h >= b.h /\ view[ConfirmKey(b.acc, h)] # None} IN
    IF found = {} THEN 0 ELSE view[ConfirmKey(b.acc, Min(found))]

\* What the chain says of the keys of the index.
Expected ==
    LET sent == Sent(Chain)
        received == Received(Chain)
        receiver == [s \in received |-> CHOOSE b \in Chain : b.from = s]
        at == [k \in {HeightKey(b) : b \in Chain} |-> CHOOSE b \in Chain : HeightKey(b) = k]
    IN
    [k \in {"onroad"} \X (sent \ received) |-> Present]
    @@ [k \in {"hash"} \X sent |-> Present]
    @@ [k \in {"receive"} \X sent |->
           IF k[2] \in received THEN <<receiver[k[2]].acc, receiver[k[2]].h>> ELSE Unreceived]
    @@ [k \in DOMAIN at |-> Entry(at[k], at[k] \notin ToSet(pool))]
    @@ [k \in IndexKey |-> None]

\* Whatever was inserted, confirmed, rolled back, flushed and lost in a crash, the
\* index is the index of the chain: a send is on the road exactly while it has no
\* receive, a block is found at its height, with a place in the files exactly when
\* it is confirmed, by the snapshot block GetConfirmHeightByHash names; and the
\* cache in front of it holds nothing else.
IndexAgrees ==
    LET view == I!View(index)
        expected == Expected
    IN
    /\ \A k \in IndexKey : k[1] # "confirm" =>
          view[k] = expected[k] /\ cache[k] \in {None, expected[k]}
    /\ \A h \in DOMAIN chunks : \A b \in ToSet(chunks[h]) : ConfirmHeight(view, b) = h
    /\ \A b \in ToSet(pool) : ConfirmHeight(view, b) = 0

\* The pool has exactly the sends to contracts that are on the road, at the height
\* the verifier orders them by, and a place that is missing or right; also when a
\* reader writes records it read before a block was received or rolled back.
OnroadAgrees ==
    /\ Without(Pooled(Sent(Chain) \ Received(Chain)), storage) = {}
    /\ \A x \in storage :
          /\ x.send \in Sent(Chain) \ Received(Chain) /\ x.h = x.send.h
          /\ x.i = x.send.i \/ (x.i = Nil /\ x.send.by \in Contracts)

\* A contract receives the sends of a caller in the order they were made, and none
\* is left out, over rollbacks of senders, receivers and both.
ReceivedInOrder ==
    \A b \in Chain : b.acc \in Contracts =>
        \A s \in Sent(Chain) : s.by = b.from.by /\ s.to = b.acc /\ Before(s, b.from) =>
            \E x \in Chain : x.from = s /\ x.h < b.h
=============================================================================
