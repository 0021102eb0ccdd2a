------------------------- MODULE InsertPlan -------------------------
(***************************************************************************)
(* The inductive invariant behind InOrder (ledger/pool/pool_batch.go).     *)
(*                                                                         *)
(* A batch is looked at as a plan: for every level and every owner (an     *)
(* account, or None for the snapshot chain) the heights still to be        *)
(* inserted.  A plan is Good for what the ledger holds when every owner's  *)
(* heights follow one another over the levels, the lowest one follows the  *)
(* chain, and whatever a block refers to is in the ledger or in an earlier *)
(* level.  Inv says that as long as the version of the batch stands, what  *)
(* is left of it is Good.  A batch whose version has passed inserts        *)
(* nothing more, and says nothing.                                         *)
(***************************************************************************)
EXTENDS InsertQueue

\* The type of a level of a batch: what it is for, whether it is closed, and its buckets.
Level == [snapshot : BOOLEAN, closed : BOOLEAN, buckets : [Owner -> Seq(Nat)]]

\* The type of a batch.
Batch == [version : Nat, levels : Seq(Level), lastSnapshot : Nat]

\* What is still to be inserted, or to be put into levels: of every level a sequence of
\* heights for every owner.
Plans == UNION {[1 .. n -> [Owner -> Seq(Nat)]] : n \in Nat}

\* The plan that a batch starts with.
Buckets(q) == [i \in DOMAIN q.levels |-> q.levels[i].buckets]

\* Height h of an owner is in level i.
Has(L, o, h, i) == i \in DOMAIN L /\ h \in Range(L[i][o])

Increasing(s) == \A k, l \in DOMAIN s : k < l => s[k] < s[l]

\* What a plan is compared with: the blocks, and how many of them are in the ledger.
World == [from |-> from, content |-> content, ledger |-> ledger, height |-> Len(snaps)]

Worlds == [from : [Block -> Block \cup {None}], content : [1 .. Snapshots -> [Accounts -> 0 .. Length]],
           ledger : [Accounts -> Nat], height : Nat]

\* How far the chain of an owner has got.
Base(w, o) == IF o = None THEN w.height ELSE w.ledger[o]

Stored(w, r) == r.h <= w.ledger[r.acc]

\* The height of the last block of an owner that the model knows.
Limit(o) == IF o = None THEN Snapshots ELSE Length

\* The account blocks that must be in the ledger before height h of o.
Needs(w, o, h) ==
    IF o = None THEN {[acc |-> a, h |-> w.content[h][a]] :
                         a \in {c \in Accounts : w.content[h][c] > IF h = 1 THEN 0 ELSE w.content[h - 1][c]}}
    ELSE {w.from[[acc |-> o, h |-> h]]} \ {None}

\* The heights of an owner grow within a bucket, and from level to level.
Ordered(L) ==
    /\ \A o \in Owner, i \in DOMAIN L : Increasing(L[i][o])
    /\ \A o \in Owner : \A i, j, h, g \in Nat : Has(L, o, h, i) /\ Has(L, o, g, j) /\ i < j => h < g

\* The lowest height of an owner follows its chain, and no height is left out.
Connected(L, w) ==
    \A o \in Owner : \A i, h \in Nat : Has(L, o, h, i) =>
        h > Base(w, o) /\ (h = Base(w, o) + 1 \/ \E j \in Nat : Has(L, o, h - 1, j))

\* What a block refers to is in the ledger, or is inserted before it.
References(L, w) ==
    \A o \in Owner : \A i, h \in Nat : Has(L, o, h, i) =>
        /\ h \in 1 .. Limit(o)
        /\ \A r \in Needs(w, o, h) :
              Stored(w, r) \/ \E j \in Nat : Has(L, r.acc, r.h, j) /\ (j < i \/ (r.acc = o /\ r.h < h))

\* The accounts and the snapshot chain share no level.
Apart(L) ==
    \A i \in DOMAIN L : L[i][None] # <<>> => \A a \in Accounts : L[i][a] = <<>>

\* A plan that can be inserted level by level, whatever the order of the buckets of a level.
Good(L, w) == Ordered(L) /\ Connected(L, w) /\ References(L, w) /\ Apart(L)

\* The account levels before the last snapshot level are closed, and no later one is.
Sorted(q) ==
    /\ q.lastSnapshot <= Len(q.levels)
    /\ q.lastSnapshot > 0 => q.levels[q.lastSnapshot].snapshot
    /\ \A i \in DOMAIN q.levels : q.levels[i].snapshot =>
          i <= q.lastSnapshot /\ \A a \in Accounts : q.levels[i].buckets[a] = <<>>
    /\ \A i \in DOMAIN q.levels : ~ q.levels[i].snapshot =>
          /\ q.levels[i].buckets[None] = <<>>
          /\ q.levels[i].closed => i < q.lastSnapshot
          /\ i < q.lastSnapshot => q.levels[i].closed
-----------------------------------------------------------------------------
\* The type of the blocks and of the ledger.
Chains ==
    /\ from \in [Block -> Block \cup {None}]
    /\ content \in [1 .. Snapshots -> [Accounts -> 0 .. Length]]
    /\ ledger \in [Accounts -> Nat] /\ own \in [Accounts -> Nat]
    /\ snaps \in Seq([own : BOOLEAN, heights : [Accounts -> Nat]])

\* A height of an owner is in some level of a batch.
InBatch(q, o, h) == \E i \in Nat : Has(Buckets(q), o, h, i)

(* The inductive invariant. *)

\* The phases of the worker: no batch or a finished one, taking the next snapshot block,
\* draining the accounts that it confirms, packing accounts, and a chunk of a sync.
Idles == [phase : {"idle", "done"}]

Nexts == [phase : {"next"}, offset : Nat]

Drains == [phase : {"snapshot"}, s : 1 .. Snapshots, stacks : [Accounts -> Seq(1 .. Length)],
           round : SUBSET Accounts, sum : BOOLEAN]

Packs == [phase : {"accounts"}, offset : [Accounts -> Nat \cup {Unset}], round : SUBSET Accounts, sum : BOOLEAN]

Chunkings == [phase : {"chunk", "execute"}, s : 1 .. Snapshots + 1, head : 1 .. Snapshots, blocks : SUBSET Block]

Phases == Idles \cup Nexts \cup Drains \cup Packs \cup Chunkings

\* The type of the state of the insertion.
Runs == [level : Nat, wait : [Owner -> Seq(Nat)], running : SUBSET Owner, failed : BOOLEAN]

\* A later snapshot block confirms no less of an account than an earlier one.
Grows == \A s \in 2 .. Snapshots, a \in Accounts : content[s - 1][a] <= content[s][a]
-----------------------------------------------------------------------------
\* Where the worker can be, and what it has in hand there.
Phase ==
    /\ build.phase = "idle" => batch.levels = <<>>
    /\ build.phase \notin {"done", "execute"} => run = NoRun
    /\ build.phase \in {"done", "execute"} => run.level \in DOMAIN batch.levels
    /\ batch.version <= version

\* The blocks of a chunk that are left: all of an account from some height on.
Chunks ==
    build.phase \in {"chunk", "execute"} =>
        /\ ~ OwnSnaps \/ build.head <= PoolSnaps
        /\ build.s > build.head => build.blocks = {}
        /\ build.s <= build.head =>
              /\ build.blocks \subseteq ChunkBlocks(build.s)
              /\ \A b \in build.blocks, c \in ChunkBlocks(build.s) :
                    c.acc = b.acc /\ c.h >= b.h => c \in build.blocks

\* What is left to be inserted of a batch.
Nothing == [o \in Owner |-> <<>>]

LeftOf(q, r) ==
    [i \in DOMAIN q.levels |-> IF i = r.level THEN r.wait
                               ELSE IF i > r.level /\ ~ r.failed THEN q.levels[i].buckets ELSE Nothing]

\* What is still to be put into the batch is above what is in it.
Upto(q, o, n) == \A g \in Nat : InBatch(q, o, g) => g <= n

\* The next snapshot block comes after those of the batch.
MakingNext ==
    /\ build.offset >= Len(snaps) /\ Upto(batch, None, build.offset)
    /\ batch.levels # <<>> => /\ build.offset \in 1 .. Snapshots
                              /\ \A a \in Accounts : Upto(batch, a, content[build.offset][a])

\* The stacks of the accounts are above the batch and below what the snapshot block confirms.
MakingSnapshot ==
    /\ build.s > Len(snaps) /\ Upto(batch, None, build.s - 1) /\ ~ OwnSnaps
    /\ \A a \in Accounts :
          /\ Increasing(build.stacks[a]) /\ Upto(batch, a, content[build.s][a])
          /\ \A k \in DOMAIN build.stacks[a] :
                /\ Upto(batch, a, build.stacks[a][k] - 1) /\ build.stacks[a][k] > ledger[a]
                /\ build.stacks[a][k] <= content[build.s][a]

\* The offset of an account is where the batch ends.
MakingAccounts ==
    \A a \in Accounts : IF build.offset[a] = Unset THEN Upto(batch, a, 0)
                        ELSE Upto(batch, a, build.offset[a]) /\ build.offset[a] >= ledger[a]

\* The blocks left of a chunk are above the batch.
MakingChunk ==
    /\ Upto(batch, None, build.s - 1)
    /\ build.s <= Snapshots => \A a \in Accounts : Upto(batch, a, content[build.s][a])
    /\ \A b \in build.blocks : Upto(batch, b.acc, b.h - 1)

Making ==
    /\ build.phase = "next" => MakingNext
    /\ build.phase = "snapshot" => MakingSnapshot
    /\ build.phase = "accounts" => MakingAccounts
    /\ build.phase = "chunk" => MakingChunk

\* What holds whether or not the version of the batch still stands.
Shape == /\ Chains /\ Grows /\ version \in Nat /\ batch \in Batch /\ Sorted(batch)
         /\ build \in Phases /\ run \in Runs /\ Phase /\ Chunks

\* As long as the version of the batch stands, what is left of it can be inserted level by level.
Plan == version = batch.version => Good(LeftOf(batch, run), World) /\ Making

\* The inductive invariant.
Inv == Shape /\ Plan
=============================================================================
