----------------------------- MODULE ChainCache -----------------------------
(***************************************************************************)
(* The memory of the chain, ledger/chain/cache: the unconfirmed blocks     *)
(* (unconfirmed_pool.go), the latest block of every account (hot_data.go), *)
(* the recent blocks (dataset.go) and the quota used under the last        *)
(* snapshot blocks (quota_list.go), from which every node computes how     *)
(* much quota an account has left.                                         *)
(*                                                                         *)
(* The actions are the operations of the chain which the cache follows     *)
(* (insert.go, delete.go), a restart, and the expiry of entries of the     *)
(* data set.  An account block is [a, h, u, t]: account, height, QuotaUsed *)
(* (which also tells apart two blocks of one height, so that [a, h, u]     *)
(* stands for the hash) and Quota, which filterUnconfirmedBlocks           *)
(* recomputes in place for blocks with a proof of work.                    *)
(***************************************************************************)
EXTENDS Integers, Sequences
LOCAL INSTANCE SequencesExt
LOCAL INSTANCE FiniteSetsExt

CONSTANTS
    Addrs,
    Used,          \* values of QuotaUsed
    PoW,           \* those of Used that blocks with a proof of work have
    UsedAccumulateHeight, ListMaxLength, DeleteAtOnce,
    MaxHeight,     \* bound: the height of the snapshot chain
    MaxBlocks      \* bound: account blocks in the chain

VARIABLES
    ledger,        \* the account blocks under every snapshot block after the genesis
    insertedList,  \* UnconfirmedPool, with the blocks for their hashes
    store,         \* dataSet.store by hash: [b, exp], exp when the entry expires
    heights,       \* dataSet.store by account and height: likewise
    latestAccountBlocks,
    list,          \* quotaList.list; its last element is backElement
    usedStart,     \* the place of usedStart in list; 0: nil; -1: not in list any more
    globalUsed,
    short          \* not in the code: a rollback left the list with fewer than
                   \* UsedAccumulateHeight elements since it was built

quota == <<list, usedStart, globalUsed, short>>
vars == <<ledger, insertedList, store, heights, latestAccountBlocks, quota>>

Hash(b) == [a |-> b.a, h |-> b.h, u |-> b.u]
CalcBlockQuotaUsed(u) == IF u \in PoW THEN 0..(u - 1) ELSE {u}
Latest == Len(ledger) + 1
----------------------------------------------------------------------------
(* quotaInfo, and maps of it by account: an absent account is NoUse *)

NoUse == [n |-> 0, t |-> 0, u |-> 0]
NoUses == [a \in Addrs |-> NoUse]
Plus(x, y)  == [n |-> x.n + y.n, t |-> x.t + y.t, u |-> x.u + y.u]
Minus(x, y) == [n |-> x.n - y.n, t |-> x.t - y.t, u |-> x.u - y.u]
One(b) == [n |-> 1, t |-> b.t, u |-> b.u]

\* the quota lists' add, and sub with blockCount 1
add(uses, b) == [uses EXCEPT ![b.a] = Plus(@, One(b))]
sub(uses, b) == [uses EXCEPT ![b.a] = IF @.n <= 1 THEN NoUse ELSE Minus(@, One(b))]
Uses(bs) == FoldLeft(add, NoUses, bs)

\* the sums in globalUsed, without QuotaTotal, which no caller of GetGlobalQuota reads
gPlus(x, y) == [n |-> x.n + y.n, u |-> x.u + y.u]
gMinus(x, y) == [n |-> x.n - y.n, u |-> x.u - y.u]
NoGlobal == [n |-> 0, u |-> 0]
aggregate(uses) == FoldSet(LAMBDA a, s : gPlus(s, uses[a]), NoGlobal, Addrs)
aggregateAll(l) == FoldLeft(LAMBDA s, uses : gPlus(s, aggregate(uses)), NoGlobal, l)
----------------------------------------------------------------------------
(* The quota list: the operators take and give a record of its fields *)

ql == [list |-> list, usedStart |-> usedStart, globalUsed |-> globalUsed]
SetQuota(q) ==
    /\ list' = q.list /\ usedStart' = q.usedStart /\ globalUsed' = q.globalUsed

backElement(q) == Last(q.list)

\* usedStart and the elements after it
UsedElements(q) == SubSeq(q.list, q.usedStart, Len(q.list))

Add(q, b) == [q EXCEPT !.list = Front(@) \o <<add(Last(@), b)>>,
                       !.globalUsed = gPlus(@, One(b))]
\* mutant: globalUsed is left as it is
SubBackOnly(q, b) == [q EXCEPT !.list = Front(@) \o <<sub(Last(@), b)>>]
Sub(q, b) == [q EXCEPT !.list = Front(@) \o <<sub(Last(@), b)>>,
                       !.globalUsed = gMinus(@, One(b))]

moveNext(q, back) ==
    LET n == Len(q.list) + 1
        p == [q EXCEPT !.list = Append(@, back), !.usedStart = IF @ = 0 THEN n ELSE @]
        m == [p EXCEPT !.globalUsed = gMinus(@, aggregate(p.list[p.usedStart])),
                       !.usedStart = @ + 1]
    IN  IF n <= UsedAccumulateHeight THEN p
        ELSE IF n <= ListMaxLength THEN m
        ELSE [m EXCEPT !.list = Tail(@), !.usedStart = @ - 1]

NewNext(q, confirmed) ==
    moveNext([q EXCEPT !.list = Front(@) \o <<Uses(confirmed)>>],
             FoldLeft(sub, backElement(q), confirmed))

ResetUnconfirmedQuotas(q, unconfirmed) ==
    [q EXCEPT !.globalUsed = gPlus(gMinus(@, aggregate(backElement(q))),
                                   aggregate(Uses(unconfirmed))),
              !.list = Front(@) \o <<Uses(unconfirmed)>>]

\* the uses under the snapshot blocks of heights lo..hi of the chain led
SubLedger(led, lo, hi) == [i \in 1..(hi - lo + 1) |-> Uses(led[lo + i - 2])]

\* GetSubLedger gives the end height too, which is in the list already
build(q, led) ==
    LET n  == Len(q.list)
        hi == Len(led) + 2 - n
        lo == IF hi > ListMaxLength - n THEN hi - (ListMaxLength - n) ELSE 1
        l  == IF n >= UsedAccumulateHeight \/ Len(led) + 1 <= n THEN q.list
              ELSE IF n = 0 THEN SubLedger(led, lo + 1, Len(led) + 1)
              ELSE SubLedger(led, lo + 1, hi) \o q.list
        start == Max({1, Len(l) - UsedAccumulateHeight + 1})
    IN  IF l = <<>> THEN q
        ELSE [q EXCEPT !.list = l, !.usedStart = start,
                       !.globalUsed = aggregateAll(SubSeq(l, start, Len(l)))]

\* mutant: an empty back element counts as a chunk
RemainingBackToo(q, n) == Max({0, Len(q.list) - n})
\* n: the deleted chunks, one of them for the unconfirmed blocks if there are any
Remaining(q, n) == Max({0, Len(q.list) - n - (IF backElement(q) = NoUses THEN 1 ELSE 0)})
Rollback(q, n, led) ==
    LET k == Remaining(q, n)
        r == [q EXCEPT !.list = SubSeq(@, 1, k),
                       !.usedStart = IF @ > k THEN -1 ELSE @]
    IN  moveNext(build(r, led), NoUses)
----------------------------------------------------------------------------
(* The data set: delete gone, then set put *)

Elsewhere(e, bs) == \A b \in bs : b.a # e.b.a \/ b.h # e.b.h
\* mutant: the entries by height stay
RenewByHash(gone, put, exp) ==
    /\ store' = {e \in store : e.b \notin gone \cup put} \cup [b : put, exp : {exp}]
    /\ heights' = {e \in heights : Elsewhere(e, put)} \cup [b : put, exp : {exp}]
Renew(gone, put, exp) ==
    /\ store' = {e \in store : e.b \notin gone \cup put} \cup [b : put, exp : {exp}]
    /\ heights' = {e \in heights : Elsewhere(e, gone \cup put)} \cup [b : put, exp : {exp}]
Hashes(bs) == {Hash(b) : b \in ToSet(bs)}

\* hotData.DeleteAccountBlocks, then InsertAccountBlock
SetLatest(gone, put) ==
    latestAccountBlocks' =
        {x \in latestAccountBlocks : \A b \in gone \cup put : b.a # x.a}
        \cup {b \in put : \A c \in put : c.a = b.a => c.h <= b.h}
----------------------------------------------------------------------------
(* The operations of the chain *)

\* cache.Init of a new cache
Fresh(led) == moveNext(build([list |-> <<>>, usedStart |-> 0,
                              globalUsed |-> NoGlobal], led), NoUses)

Init ==
    /\ ledger = <<>> /\ insertedList = <<>>
    /\ store = {} /\ heights = {} /\ latestAccountBlocks = {}
    /\ list = <<NoUses>> /\ usedStart = 1 /\ globalUsed = NoGlobal /\ short = FALSE

\* the height of the account's last block in the chain
HeightOf(a) == Len(SelectSeq(FlattenSeq(ledger) \o insertedList, LAMBDA b : b.a = a))

InsertAccountBlock(a, u) ==
    /\ Len(FlattenSeq(ledger)) + Len(insertedList) < MaxBlocks
    /\ \E t \in CalcBlockQuotaUsed(u) :
        LET b == [a |-> a, h |-> HeightOf(a) + 1, u |-> u, t |-> t]
        IN  /\ Renew({}, {Hash(b)}, FALSE)
            /\ SetLatest({}, {Hash(b)})
            /\ insertedList' = Append(insertedList, b)
            /\ SetQuota(Add(ql, b))
    /\ UNCHANGED <<ledger, short>>

In(s, bs)  == SelectSeq(s, LAMBDA b : b \in bs)
Out(s, bs) == SelectSeq(s, LAMBDA b : b \notin bs)

\* sets of blocks of s that hold, with a block, the later ones of its account
Ends(s) == {bs \in SUBSET ToSet(s) :
              \A b \in bs, c \in ToSet(s) : c.a = b.a /\ c.h > b.h => c \in bs}

\* filterUnconfirmedBlocks: the blocks with their quota recomputed
Requoted(s) == {r \in [DOMAIN s -> UNION {[a : {b.a}, h : {b.h}, u : {b.u}, t : CalcBlockQuotaUsed(b.u)]
                                          : b \in ToSet(s)}] :
                  \A i \in DOMAIN s : Hash(r[i]) = Hash(s[i])}

\* The content of the snapshot block leaves out the blocks of left.  Of those
\* the ones of invalid are deleted.
InsertSnapshotBlock ==
    /\ Latest < MaxHeight
    /\ \E left \in Ends(insertedList), large \in BOOLEAN :
       \E rest \in Requoted(In(insertedList, left)) : \E invalid \in Ends(rest) :
        LET confirmed == Out(insertedList, left)
            deleted   == In(rest, invalid)
        IN  /\ ledger' = Append(ledger, confirmed)
            /\ insertedList' = Out(rest, invalid)
            /\ Renew(Hashes(deleted) \cup (IF large THEN Hashes(confirmed) ELSE {}),
                     IF large THEN {} ELSE Hashes(confirmed), TRUE)
            /\ SetLatest(Hashes(deleted), {})
            /\ SetQuota(ResetUnconfirmedQuotas(FoldLeft(Sub, NewNext(ql, confirmed), deleted),
                                               insertedList'))
    /\ UNCHANGED short

\* deleteAccountBlocks, of a block and those that depend on it
DeleteAccountBlocks ==
    \E blocks \in Ends(insertedList) \ {{}} :
        /\ insertedList' = Out(insertedList, blocks)
        /\ Renew(Hashes(In(insertedList, blocks)), {}, FALSE)
        /\ SetLatest(Hashes(In(insertedList, blocks)), {})
        /\ SetQuota(FoldLeft(Sub, ql, In(insertedList, blocks)))
        /\ UNCHANGED <<ledger, short>>

\* deleteSnapshotBlocksToHeight: with a redo log the blocks under the lowest
\* snapshot block deleted are unconfirmed again
DeleteSnapshotBlocksToHeight ==
    \E toHeight \in Max({2, Latest - DeleteAtOnce + 1})..Latest, redo \in BOOLEAN :
        LET kept    == SubSeq(ledger, 1, toHeight - 2)
            chunks  == SubSeq(ledger, toHeight - 1, Len(ledger))
                       \o (IF insertedList = <<>> THEN <<>> ELSE <<insertedList>>)
            again   == IF redo THEN Head(chunks) ELSE <<>>
        IN  /\ ledger' = kept
            /\ insertedList' = again
            /\ Renew(Hashes(FlattenSeq(chunks)), Hashes(again), FALSE)
            /\ SetLatest(Hashes(FlattenSeq(chunks)), Hashes(again))
            /\ SetQuota(FoldLeft(Add, Rollback(ql, Len(chunks), kept), again))
            /\ short' = IF Remaining(ql, Len(chunks)) = 0 THEN kept = <<>>
                        ELSE short \/ Remaining(ql, Len(chunks)) < UsedAccumulateHeight

\* a new cache over the snapshot blocks that were flushed
Restart ==
    /\ \E n \in 0..Len(ledger) : ledger' = SubSeq(ledger, 1, n)
    /\ SetQuota(Fresh(ledger')) /\ short' = FALSE
    /\ insertedList' = <<>> /\ store' = {} /\ heights' = {} /\ latestAccountBlocks' = {}

\* go-cache: an entry past its expiration is not found any more
Expire ==
    \E b \in {e.b : e \in {x \in store \cup heights : x.exp}} :
        /\ store' = store \ {[b |-> b, exp |-> TRUE]}
        /\ heights' = heights \ {[b |-> b, exp |-> TRUE]}
        /\ UNCHANGED <<ledger, insertedList, latestAccountBlocks, quota>>

\* Bound: when a rollback left the list short only a restart follows.
Next ==
    \/ ~short /\ \E a \in Addrs, u \in Used : InsertAccountBlock(a, u)
    \/ ~short /\ InsertSnapshotBlock
    \/ ~short /\ DeleteAccountBlocks
    \/ ~short /\ DeleteSnapshotBlocksToHeight
    \/ ~short /\ Expire
    \/ Restart

Spec == Init /\ [][Next]_vars
----------------------------------------------------------------------------
(* Properties *)

\* GetQuotaUsedList answers, for every account, the quota used under each of the
\* last UsedAccumulateHeight - 1 snapshot blocks and by the unconfirmed blocks,
\* whatever insertions, rollbacks, recomputed quotas and restarts came before
\* (but for rollbacks that leave the list short, see short).
QuotaWindow ==
    ~short =>
       LET lo == Max({2, Latest - UsedAccumulateHeight + 2})
       IN  UsedElements(ql) = Append(SubLedger(ledger, lo, Latest), Uses(insertedList))

\* GetGlobalQuota, kept by additions and subtractions, is the sum over that
\* window without the unconfirmed blocks: nothing is subtracted twice or never.
GlobalQuota ==
    ~short => gMinus(globalUsed, aggregate(backElement(ql))) = aggregateAll(Front(UsedElements(ql)))

\* What the cache answers is in the chain: by hash or by height it never gives a
\* block that was rolled back, GetLatestAccountBlock gives the account's last
\* block or nothing, and an unconfirmed block, which GetBlocks reads without a
\* check for nil, is always in the data set and never expires.
CacheAgrees ==
    LET chain == Hashes(FlattenSeq(ledger) \o insertedList)
    IN  /\ {e.b : e \in store \cup heights} \subseteq chain
        /\ \A b \in latestAccountBlocks, s \in store : s.b = b => b.h = HeightOf(b.a)
        /\ \A b \in Hashes(insertedList) : [b |-> b, exp |-> FALSE] \in store
=============================================================================
