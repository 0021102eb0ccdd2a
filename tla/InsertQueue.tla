---------------------------- MODULE InsertQueue ----------------------------
(***************************************************************************)
(* How the blocks of the pool reach the ledger (ledger/pool/pool_batch.go, *)
(* pool_batch_chunk.go, ledger/pool/batch).  One worker makes a batch of   *)
(* blocks, of the pool or of a downloaded chunk, and sorts them in levels; *)
(* the levels are inserted one after the other, the accounts of a level in *)
(* parallel.  Meanwhile the wallet adds blocks of this node, and the       *)
(* producer adds snapshot blocks, which may delete account blocks; the     *)
(* version tells the batch that something was taken away under it.         *)
(*                                                                         *)
(* A block is an account and a height.  Every account has one chain in the *)
(* pool; a block of this node forks from it.  `from` is the block that a   *)
(* receive block receives, or the contract block whose list contains the   *)
(* send: the keys of a block stand for it, so many blocks may have one     *)
(* `from`.  `content` gives for each snapshot block of the pool the height *)
(* it confirms of each account.  What a block is refused for (black list,  *)
(* quota, confirmations, an invalid signature) is a choice.  Levels are    *)
(* counted from 1, and 0 stands for the -1 of the code.                    *)
(***************************************************************************)
EXTENDS Integers, Sequences, FiniteSetsExt

CONSTANTS Accounts, Length, Snapshots, None,
          Shapes,              \* the chains that are considered
          MaxLevel,            \* 50 in the code
          MaxVersion, MaxOwn   \* bounds: versions, blocks of this node

Owner == Accounts \cup {None}
Block == [acc : Accounts, h : 1 .. Length]

\* A snapshot block confirms no less than the one before it.
ASSUME QueueAssumption ==
    /\ None \notin Accounts /\ Length \in Nat /\ Snapshots \in Nat
    /\ MaxLevel \in Nat \ {0} /\ MaxOwn \in Nat
    /\ \A shape \in Shapes :
          /\ shape.from \in [Block -> Block \cup {None}]
          /\ shape.content \in [1 .. Snapshots -> [Accounts -> 0 .. Length]]
          /\ \A s \in 2 .. Snapshots, a \in Accounts :
                shape.content[s - 1][a] <= shape.content[s][a]

VARIABLES from, content,   \* the blocks, chosen once
          ledger,          \* how many blocks of each pool chain are in the ledger
          own,             \* how many blocks of this node are on top of them
          snaps,           \* the snapshot blocks in the ledger
          version, batch, build, run

queueVars == <<from, content, ledger, own, snaps, version, batch, build, run>>
-----------------------------------------------------------------------------
Prev(b) == IF b.h = 1 THEN {} ELSE {[b EXCEPT !.h = @ - 1]}
From(b) == {from[b]} \ {None}
Refs(b) == From(b) \cup Prev(b)

Confirmed(s) == IF s = 0 THEN [a \in Accounts |-> 0] ELSE content[s]
SnapshotContent(s) == {[acc |-> a, h |-> content[s][a]] :
                          a \in {c \in Accounts : content[s][c] > Confirmed(s - 1)[c]}}

InLedger(b) == b.h <= ledger[b.acc]
TailHeight(a) == ledger[a] + own[a]
\* A snapshot block of this node can only be the last one.
OwnSnaps == snaps # <<>> /\ snaps[Len(snaps)].own
PoolSnaps == IF OwnSnaps THEN Len(snaps) - 1 ELSE Len(snaps)
Fixed == IF snaps = <<>> THEN [a \in Accounts |-> 0] ELSE snaps[Len(snaps)].heights

\* Heights at which the chains may be cut: no block stays without its send.
Cuts(low, high) ==
    {n \in [Accounts -> 0 .. Length + MaxOwn] :
        /\ \A a \in Accounts : low[a] <= n[a] /\ n[a] <= high[a]
        /\ \A b \in Block : b.h <= ledger[b.acc] /\ b.h <= n[b.acc]
                               => \A r \in From(b) : r.h <= n[r.acc]}
Tails == [a \in Accounts |-> TailHeight(a)]
CutTo(n) ==
    /\ ledger' = [a \in Accounts |-> IF n[a] < ledger[a] THEN n[a] ELSE ledger[a]]
    /\ own' = [a \in Accounts |-> IF n[a] < ledger[a] THEN 0 ELSE n[a] - ledger[a]]
-----------------------------------------------------------------------------
(***************************************************************************)
(* A batch and its levels.                                                 *)
(***************************************************************************)
NewBatch(v) == [version |-> v, levels |-> <<>>, lastSnapshot |-> 0]
newLevel(snapshot) == [snapshot |-> snapshot, closed |-> FALSE,
                       buckets |-> [o \in Owner |-> <<>>]]
Current(q) == Len(q.levels)

\* The levels that hold a block; `all` of the code.
LevelsOf(q, owner, h) ==
    {i \in DOMAIN q.levels : h \in Range(q.levels[i].buckets[owner])}
Exists(q, owner, h) == LevelsOf(q, owner, h) # {}

Added(q, max, owner, h) ==
    LET levels == IF max > Current(q) THEN Append(q.levels, newLevel(owner = None))
                  ELSE q.levels
    IN [q EXCEPT !.levels = [levels EXCEPT ![max].buckets[owner] = Append(@, h)]]

\* bucket.add: the block follows the last one of the bucket.
Follows(q, max, owner, h) ==
    \/ max > Current(q)
    \/ LET items == q.levels[max].buckets[owner] IN items = <<>> \/ items[Len(items)] = h - 1

\* Mutant: a block may be in the level of any block it refers to.
LevelBeside(b, r, level) == level

\* The loop of addAccountItem over the blocks that b refers to: after a block of
\* its own account, in the bucket that has it; after one of another, a level later.
LevelAfter(b, r, level) == IF r.acc = b.acc THEN level ELSE level + 1

ReferTo(q, b, found, r) ==
    LET levels == LevelsOf(q, r.acc, r.h)
        max == LevelAfter(b, r, Max(levels))
    IN CASE found.err # "none" -> found
         [] levels = {} /\ InLedger(r) -> found
         [] levels = {} /\ ~ InLedger(r) -> [found EXCEPT !.err = "reference"]
         [] levels # {} /\ (q.levels[Max(levels)].closed \/ Max(levels) < found.max) -> found
         [] OTHER -> [max |-> max, err |-> IF max > MaxLevel THEN "max" ELSE "none"]

\* At most one block.
ReferAll(q, b, found, rs) ==
    IF rs = {} THEN found ELSE ReferTo(q, b, found, CHOOSE r \in rs : TRUE)

addAccountItem(q, b) ==
    LET first == ReferAll(q, b, [max |-> 0, err |-> "none"], From(b))
        found == ReferAll(q, b, first, Prev(b))
        least == IF found.max = 0 THEN q.lastSnapshot + 1 ELSE found.max
        max == IF least <= Current(q) /\ q.levels[Current(q)].snapshot
               THEN Current(q) + 1 ELSE least
    IN CASE found.err # "none" -> [q |-> q, err |-> found.err]
         [] found.err = "none" /\ max > MaxLevel -> [q |-> q, err |-> "max"]
         [] found.err = "none" /\ max <= MaxLevel /\ ~ Follows(q, max, b.acc, b.h) ->
               [q |-> q, err |-> "prev"]
         [] OTHER -> [q |-> Added(q, max, b.acc, b.h), err |-> "none"]

Close(levels, low, high) ==
    [i \in DOMAIN levels |-> [levels[i] EXCEPT !.closed = @ \/ (low < i /\ i < high)]]

\* A snapshot block goes to a level of its own, or to the last one if that is a
\* level of snapshot blocks; the levels before it are closed.
addSnapshotItem(q, s) ==
    LET missing == \/ \E r \in SnapshotContent(s) : ~ Exists(q, r.acc, r.h) /\ ~ InLedger(r)
                   \/ s > 1 /\ ~ Exists(q, None, s - 1) /\ s - 1 > PoolSnaps
        max == IF q.levels # <<>> /\ q.levels[Current(q)].snapshot THEN Current(q) ELSE Current(q) + 1
        added == Added(q, max, None, s)
    IN CASE missing -> [q |-> q, err |-> "reference"]
         [] ~ missing /\ max > MaxLevel -> [q |-> q, err |-> "max"]
         [] ~ missing /\ max <= MaxLevel /\ ~ Follows(q, max, None, s) -> [q |-> q, err |-> "prev"]
         [] OTHER ->
               [q |-> [added EXCEPT !.levels = Close(added.levels, q.lastSnapshot, max),
                                    !.lastSnapshot = max],
                err |-> "none"]
-----------------------------------------------------------------------------
(***************************************************************************)
(* Making a batch.                                                         *)
(***************************************************************************)
NotMaking == [phase |-> "idle"]
NoRun == [level |-> 0, wait |-> [o \in Owner |-> <<>>], running |-> {}, failed |-> FALSE]
NoBatch == NewBatch(0)
Unset == -1   \* no offset of an account yet

QueueInit ==
    /\ \E shape \in Shapes : from = shape.from /\ content = shape.content
    /\ ledger = [a \in Accounts |-> 0] /\ own = ledger
    /\ snaps = <<>> /\ version = 0
    /\ batch = NoBatch /\ build = NotMaking /\ run = NoRun

blocks == <<from, content>>
chain == <<ledger, own, snaps, version>>

\* The batch is ready: insert it, unless it is empty.
Made(q) ==
    IF q.levels = <<>> THEN batch' = NoBatch /\ build' = NotMaking /\ UNCHANGED run
    ELSE /\ batch' = q /\ build' = [phase |-> "done"]
         /\ run' = [NoRun EXCEPT !.level = 1, !.wait = q.levels[1].buckets]

\* makeQueue starts at the last snapshot block in the ledger.
MakeQueue ==
    /\ build = NotMaking
    /\ batch' = NewBatch(version) /\ build' = [phase |-> "next", offset |-> Len(snaps)]
    /\ UNCHANGED <<blocks, chain, run>>

\* genForSnapshotContents: the block is not on the current chain of its account.
Pending(s) == {a \in Accounts : own[a] > 0 /\ \E r \in SnapshotContent(s) :
                                    r.acc = a /\ r.h > ledger[a]}
\* The blocks of an account up to the content that the batch does not have.
Stack(s, a) ==
    LET top == Max({TailHeight(a)} \cup {h \in 1 .. content[s][a] : Exists(batch, a, h)})
    IN IF \E r \in SnapshotContent(s) : r.acc = a
       THEN [i \in 1 .. content[s][a] - top |-> top + i] ELSE <<>>

NonEmpty(stacks) == {a \in Accounts : stacks[a] # <<>>}

NextSnapshot == /\ build.phase = "next" /\ ~ OwnSnaps /\ build.offset < Snapshots

\* makeSnapshotBlock finds the next snapshot block and all its account blocks.
MakeSnapshotBlock ==
    LET stacks == [a \in Accounts |-> Stack(build.offset + 1, a)] IN
    /\ NextSnapshot /\ Pending(build.offset + 1) = {}
    /\ build' = [phase |-> "snapshot", s |-> build.offset + 1, stacks |-> stacks,
                 round |-> NonEmpty(stacks), sum |-> FALSE]
    /\ UNCHANGED <<blocks, chain, batch, run>>

\* There is none, or it is in the black list, or account blocks are missing.
NoSnapshotBlock ==
    /\ build.phase = "next"
    /\ IF batch.levels # <<>> THEN Made(batch)
       ELSE /\ build' = [phase |-> "accounts", offset |-> [a \in Accounts |-> Unset],
                         round |-> Accounts, sum |-> FALSE]
            /\ UNCHANGED <<batch, run>>
    /\ UNCHANGED <<blocks, chain>>

\* snapshotPendingFix: the chains of the accounts whose blocks have arrived are switched
\* to the snapshot block, which deletes what this node put there.
PendingFix(accounts) ==
    /\ NextSnapshot /\ batch.levels = <<>>
    /\ Pending(build.offset + 1) # {} /\ accounts \subseteq Pending(build.offset + 1)
    /\ build' = NotMaking /\ batch' = NoBatch
    /\ IF batch.version = version /\ accounts # {}
       THEN /\ version < MaxVersion /\ version' = version + 1
            /\ own' = [a \in Accounts |-> IF a \in accounts THEN 0 ELSE own[a]]
       ELSE UNCHANGED <<own, version>>
    /\ UNCHANGED <<blocks, ledger, snaps, run>>

\* Adds the blocks of an account one after the other until one is refused.
AddNext(a, r, h) ==
    LET add == addAccountItem(r.q, [acc |-> a, h |-> h])
    IN IF r.err # "none" THEN r
       ELSE [q |-> add.q, err |-> add.err, n |-> IF add.err = "none" THEN r.n + 1 ELSE r.n]
AddAll(q, a, hs) ==
    LET added[i \in 0 .. Len(hs)] ==
            IF i = 0 THEN [q |-> q, err |-> "none", n |-> 0] ELSE AddNext(a, added[i - 1], hs[i])
    IN added[Len(hs)]

\* makeQueueFromSnapshotBlock visits the accounts in some order, and again as long as
\* a round added a block.
DrainAccount(a) ==
    LET added == AddAll(batch, a, build.stacks[a]) IN
    /\ build.phase = "snapshot" /\ a \in build.round
    /\ IF added.err = "max" THEN Made(added.q)
       ELSE /\ build' = [build EXCEPT !.round = @ \ {a}, !.sum = @ \/ added.n > 0,
                                      !.stacks[a] = SubSeq(@, added.n + 1, Len(@))]
            /\ batch' = added.q /\ UNCHANGED run
    /\ UNCHANGED <<blocks, chain>>

\* The end of a round: the snapshot block comes after all its account blocks.
AddSItem ==
    LET added == addSnapshotItem(batch, build.s)
        isEmpty == NonEmpty(build.stacks) = {}
    IN
    /\ build.phase = "snapshot" /\ build.round = {}
    /\ CASE build.sum -> /\ build' = [build EXCEPT !.round = NonEmpty(build.stacks), !.sum = FALSE]
                         /\ UNCHANGED <<batch, run>>
         [] ~ build.sum /\ isEmpty /\ added.err = "none" ->
               /\ build' = [phase |-> "next", offset |-> build.s]
               /\ batch' = added.q /\ UNCHANGED run
         [] OTHER -> Made(batch)
    /\ UNCHANGED <<blocks, chain>>

\* makePackage: the next blocks of an account, n of them if none is refused.  When it
\* reaches the head it reports one block less than it added.
MakePackage(a, n) ==
    LET offset == IF build.offset[a] = Unset THEN TailHeight(a) ELSE build.offset[a]
        added == AddAll(batch, a, [i \in 1 .. n |-> offset + i])
        allIn == offset + added.n = Length
    IN
    /\ build.phase = "accounts" /\ a \in build.round
    /\ n = 0 \/ (own[a] = 0 /\ offset + n <= Length)
    /\ batch' = added.q
    /\ build' = [build EXCEPT !.round = @ \ {a},
                              !.offset[a] = IF own[a] = 0 THEN offset + added.n ELSE @,
                              !.sum = @ \/ added.n > (IF allIn THEN 1 ELSE 0)]
    /\ UNCHANGED <<blocks, chain, run>>

PackagesEnd ==
    /\ build.phase = "accounts" /\ build.round = {}
    /\ IF build.sum THEN /\ build' = [build EXCEPT !.round = Accounts, !.sum = FALSE]
                         /\ UNCHANGED <<batch, run>>
       ELSE Made(batch)
    /\ UNCHANGED <<blocks, chain>>
-----------------------------------------------------------------------------
(***************************************************************************)
(* insertChunksToChain: a chunk that is connected with the ledger becomes  *)
(* one batch, or several when the levels do not suffice.  The worker holds *)
(* the insert lock all the time.                                           *)
(***************************************************************************)
ChunkBlocks(s) == {b \in Block : Confirmed(s - 1)[b.acc] < b.h /\ b.h <= content[s][b.acc]}
Chunk(s, head) == [phase |-> "chunk", s |-> s, head |-> head,
                   blocks |-> IF s <= head THEN ChunkBlocks(s) ELSE {}]
Locked == build.phase \in {"chunk", "execute"}

\* checkInsert: the chunk is on the current chains of the pool, in the ledger or not.
InsertChunks(tail, head) ==
    /\ build = NotMaking /\ (~ OwnSnaps \/ head <= PoolSnaps)
    /\ \A s \in tail .. head : \A b \in ChunkBlocks(s) : InLedger(b) \/ own[b.acc] = 0
    /\ batch' = NewBatch(version) /\ build' = Chunk(tail, head)
    /\ UNCHANGED <<blocks, chain, run>>

\* The batch so far is inserted, and the chunk goes on with a new one.
Execute ==
    /\ build' = [build EXCEPT !.phase = "execute"]
    /\ run' = [NoRun EXCEPT !.level = 1, !.wait = batch.levels[1].buckets]
    /\ UNCHANGED batch

\* What becomes of the chunk after an item.
ChunkStep(added, next) ==
    CASE added.err = "none" -> batch' = added.q /\ build' = next /\ UNCHANGED run
      [] added.err = "max" -> Execute
      [] OTHER -> batch' = NoBatch /\ build' = NotMaking /\ UNCHANGED run

\* TopoSort puts a block after those it refers to; a block in the ledger is ignored.
ChunkAccount(b) ==
    /\ build.phase = "chunk" /\ b \in build.blocks /\ Refs(b) \cap build.blocks = {}
    /\ ChunkStep(IF InLedger(b) THEN [q |-> batch, err |-> "none"] ELSE addAccountItem(batch, b),
                 [build EXCEPT !.blocks = @ \ {b}])
    /\ UNCHANGED <<blocks, chain>>

ChunkSnapshot ==
    /\ build.phase = "chunk" /\ build.blocks = {} /\ build.s <= build.head
    /\ ChunkStep(IF build.s <= Len(snaps) THEN [q |-> batch, err |-> "none"]
                 ELSE addSnapshotItem(batch, build.s),
                 Chunk(build.s + 1, build.head))
    /\ UNCHANGED <<blocks, chain>>

ChunksEnd ==
    /\ build.phase = "chunk" /\ build.s > build.head
    /\ IF batch.levels # <<>> THEN Execute ELSE batch' = NoBatch /\ build' = NotMaking /\ UNCHANGED run
    /\ UNCHANGED <<blocks, chain>>
-----------------------------------------------------------------------------
(***************************************************************************)
(* Inserting a batch.                                                      *)
(***************************************************************************)
\* A goroutine takes a bucket with the insert lock, shared for an account, exclusive
\* for snapshot blocks, and is running until it has inserted the last block of it.
\* It takes one even after another bucket failed, when it does not see that yet.
Inserted(owner) ==
    [run EXCEPT !.wait[owner] = Tail(@),
                !.running = IF Len(run.wait[owner]) = 1 THEN @ \ {owner} ELSE @ \cup {owner}]
Failed(owner) ==
    [run EXCEPT !.wait[owner] = <<>>, !.running = @ \ {owner}, !.failed = TRUE]

\* tryInsertItems: the block follows the tail, the version is that of the batch, and
\* the verifier accepts it, which needs what it refers to in the ledger.
InsertAccountBlock(a) ==
    LET b == [acc |-> a, h |-> Head(run.wait[a])] IN
    /\ run.wait[a] # <<>>
    /\ own[a] = 0 /\ b.h = ledger[a] + 1 /\ version = batch.version
    /\ \A r \in From(b) : InLedger(r)
    /\ ledger' = [ledger EXCEPT ![a] = @ + 1]
    /\ run' = Inserted(a)
    /\ UNCHANGED <<blocks, own, snaps, version, batch, build>>

\* One of these fails, or the verifier refuses the block for what it is.
FailBucket(owner) ==
    /\ run.wait[owner] # <<>>
    /\ run' = Failed(owner)
    /\ UNCHANGED <<blocks, chain, batch, build>>

\* snapshotInsertItems.  The chain may delete unconfirmed blocks that are not valid
\* under the new snapshot block; then the batch ends with an error.
DeleteEnds == Failed(None)
InsertSnapshotBlock ==
    LET s == Head(run.wait[None])
        low == [a \in Accounts |-> Max({content[s][a], Fixed[a]})]
    IN
    /\ run.wait[None] # <<>>
    /\ ~ OwnSnaps /\ s = Len(snaps) + 1 /\ version = batch.version
    /\ \A r \in SnapshotContent(s) : InLedger(r)
    /\ snaps' = Append(snaps, [own |-> FALSE, heights |-> low])
    /\ \E n \in Cuts(low, Tails) :
          /\ CutTo(n)
          /\ run' = IF n = Tails THEN Inserted(None) ELSE DeleteEnds
    /\ UNCHANGED <<blocks, version, batch, build>>

\* The level is done when all goroutines have ended; then the next one, or the end.
LevelDone ==
    /\ run.level > 0 /\ run.running = {}
    /\ run.failed \/ \A o \in Owner : run.wait[o] = <<>>
    /\ IF ~ run.failed /\ run.level < Current(batch)
       THEN /\ run' = [NoRun EXCEPT !.level = run.level + 1,
                                    !.wait = batch.levels[run.level + 1].buckets]
            /\ UNCHANGED <<batch, build>>
       ELSE /\ run' = NoRun
            /\ IF Locked /\ ~ run.failed /\ build.s <= build.head
               THEN batch' = NewBatch(version) /\ build' = [build EXCEPT !.phase = "chunk"]
               ELSE batch' = NoBatch /\ build' = NotMaking
    /\ UNCHANGED <<blocks, chain>>
-----------------------------------------------------------------------------
(***************************************************************************)
(* The other actors.                                                       *)
(***************************************************************************)
\* AddDirectAccountBlock: shares the insert lock, and waits for the account's bucket.
AddDirectAccountBlock(a) ==
    /\ ~ Locked /\ run.running \cap {a, None} = {}
    /\ MapThenSumSet(LAMBDA c : own[c], Accounts) < MaxOwn /\ own' = [own EXCEPT ![a] = @ + 1]
    /\ UNCHANGED <<blocks, ledger, snaps, version, batch, build, run>>

\* The producer takes the insert lock alone.  The new snapshot block confirms what is
\* not confirmed, up to some block, and may delete the rest; the version grows.
AddDirectSnapshotBlock ==
    /\ ~ Locked /\ run.running = {}
    /\ version < MaxVersion /\ version' = version + 1
    /\ \/ \E heights \in {n \in Cuts(Fixed, Tails) : ~ OwnSnaps} :
             /\ snaps' = Append(snaps, [own |-> TRUE, heights |-> heights])
             /\ \E n \in Cuts(heights, Tails) : CutTo(n)
       \/ UNCHANGED <<ledger, own, snaps>>
    /\ UNCHANGED <<blocks, batch, build, run>>

\* checkFork: the worker goes back to where the branch of the pool begins.  With the
\* redo log the blocks of the first deleted snapshot block stay, unconfirmed.
CheckFork ==
    /\ build = NotMaking /\ OwnSnaps
    /\ version < MaxVersion /\ version' = version + 1
    /\ snaps' = SubSeq(snaps, 1, PoolSnaps)
    /\ \E i \in {PoolSnaps, PoolSnaps + 1} :
          CutTo(IF i = 0 THEN Confirmed(0) ELSE snaps[i].heights)
    /\ UNCHANGED <<blocks, batch, build, run>>

QueueNext ==
    \/ MakeQueue \/ MakeSnapshotBlock \/ NoSnapshotBlock \/ AddSItem \/ PackagesEnd
    \/ \E accounts \in SUBSET Accounts : PendingFix(accounts)
    \/ \E a \in Accounts : DrainAccount(a) \/ InsertAccountBlock(a) \/ AddDirectAccountBlock(a)
    \/ \E a \in Accounts, n \in 0 .. Length : MakePackage(a, n)
    \/ \E tail, head \in 1 .. Snapshots : tail <= head /\ InsertChunks(tail, head)
    \/ \E b \in Block : ChunkAccount(b)
    \/ ChunkSnapshot \/ ChunksEnd
    \/ \E owner \in Owner : FailBucket(owner)
    \/ InsertSnapshotBlock \/ LevelDone
    \/ AddDirectSnapshotBlock \/ CheckFork

QueueSpec == QueueInit /\ [][QueueNext]_queueVars
-----------------------------------------------------------------------------
(***************************************************************************)
(* Property.                                                               *)
(***************************************************************************)
\* Unless somebody else has put a block in its chain, the next block of every bucket
\* of the level that is being inserted finds its predecessor at the tail and all it
\* refers to in the ledger, as long as the version of the batch stands: the levels
\* order the blocks however the accounts were visited, the version and the errors
\* cover everything that is deleted, and no block fails for want of another.
InOrder ==
    version = batch.version =>
        /\ \A a \in Accounts : run.wait[a] # <<>> /\ own[a] = 0 =>
              LET b == [acc |-> a, h |-> Head(run.wait[a])]
              IN b.h = ledger[a] + 1 /\ \A r \in From(b) : InLedger(r)
        /\ run.wait[None] # <<>> /\ ~ OwnSnaps =>
              LET s == Head(run.wait[None])
              IN s = Len(snaps) + 1 /\ \A r \in SnapshotContent(s) : InLedger(r)
=============================================================================
