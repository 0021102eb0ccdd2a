------------------------------- MODULE BCPool -------------------------------
(***************************************************************************)
(* The pool of one chain, ledger/pool: BCPool, chainPool, blockPool, the   *)
(* accountPool or snapshotPool, and the operations of pool on it.          *)
(*                                                                         *)
(* Blocks come from the network in any order.  A free block is compounded  *)
(* into a snippet, a piece of chain not yet connected to the tree; when    *)
(* the tail of the snippet is found in the tree, the snippet extends a     *)
(* branch or becomes one.  The main branch is inserted into the ledger     *)
(* from its tail.  A snapshot block may make the pool switch its main      *)
(* branch, and may roll the ledger back.                                   *)
(*                                                                         *)
(* Actors: the network, which adds blocks; the worker of the pool, which   *)
(* compacts, inserts, switches and prunes; the generators of blocks, which *)
(* insert directly; the snapshot producer, which rolls an account chain    *)
(* back when its block invalidates blocks of it.  The producer holds the   *)
(* insert lock of the pool, which Compact does not take: the two           *)
(* interleave.                                                             *)
(***************************************************************************)
EXTENDS Tree, Integers
LOCAL INSTANCE SequencesExt
LOCAL INSTANCE FiniteSetsExt

CONSTANTS Blocks,        \* the blocks of the chain that exist, closed under PrevHash
          LimitLongestNum,   \* BCPool.limitLongestNum
          MaxFree,       \* bound: blocks in freeBlocks
          MaxRollbacks   \* bound: rollbacks of the ledger in a behaviour

ASSUME BCPoolAssumption ==
    /\ \A k \in Blocks : k # <<>> /\ (PrevHash(k) = <<>> \/ PrevHash(k) \in Blocks)
    /\ MaxRollbacks \in Nat

VARIABLES
    kind,        \* "account" or "snapshot": whose pool it is
    tree,        \* chainPool.tree, with the disk branch
    free,        \* blockPool.freeBlocks
    compound,    \* blockPool.compoundBlocks
    snippets,    \* chainPool.snippetChains: tail and head, the blocks between are determined
    todo, chains,   \* loopAppendChains: the snippets still to append, tmpChains
    deleted,     \* blocks rolled back in the ledger, not yet in the pool
    cur,         \* main of rollbackCurrent: "none" before it is read, then "read", "used", or "gone"
    rollbacks    \* bound

poolVars == <<tree, free, compound, snippets>>
vars == <<kind, poolVars, todo, chains, deleted, cur, rollbacks>>

\* The blocks of a snippet.
Path(tail, head) == {SubSeq(head, 1, n) : n \in Height(tail) + 1 .. Height(head)}
SnippetBlocks(s) == Path(s.tail, s.head)
Held(S) == UNION {SnippetBlocks(s) : s \in S}

Init ==
    /\ kind \in {"account", "snapshot"}
    /\ tree = InitTree(<<>>)
    /\ free = {} /\ compound = {} /\ snippets = {}
    /\ todo = {} /\ chains = {} /\ deleted = {} /\ cur = "none" /\ rollbacks = 0

Running    == tree.status = "ok"
Compacting == todo # {}
\* The worker is not in Compact; the chain head lock is free.
Idle == Running /\ ~Compacting
\* The producer is not between the ledger and the pool; the insert lock is free.
InsertFree == deleted = {}
----------------------------------------------------------------------------
(* The network *)

\* addBlock.
AddBlock(k) ==
    /\ Running
    /\ Cardinality(free) < MaxFree
    /\ k \notin free \cup compound \cup tree.hashes
    /\ free' = free \cup {k}
    /\ UNCHANGED <<kind, tree, compound, snippets, todo, chains, deleted, cur, rollbacks>>
----------------------------------------------------------------------------
(* Compact: loopGenSnippetChains, then loopAppendChains *)

\* tryInsert, or newSnippetChain: the outcomes, by the order of the snippets.
TryInsert(S, k) ==
    LET below == {s \in S : s.tail = k}
        over  == {s \in S : k \in SnippetBlocks(s) \ {s.head}}
    IN  {(S \ {s}) \cup {[s EXCEPT !.tail = PrevHash(k)]} : s \in below}
        \cup (IF over # {} THEN {S} ELSE {})
        \cup (IF below \cup over = {} THEN {S \cup {[tail |-> PrevHash(k), head |-> k]}} ELSE {})

\* The free blocks, highest first.
RECURSIVE InsertAll(_, _)
InsertAll(S, ks) ==
    IF ks = {} THEN {S}
    ELSE LET k == CHOOSE x \in ks : \A y \in ks : Height(y) <= Height(x)
         IN  UNION {InsertAll(R, ks \ {k}) : R \in TryInsert(S, k)}

\* The merge of snippets that meet; of two that meet the same one, either takes it.
RECURSIVE Merge(_)
Merge(S) ==
    LET meet == {p \in S \X S : p[1].tail = p[2].head}
    IN  IF meet = {} THEN {S}
        ELSE UNION {Merge((S \ {p[1], p[2]}) \cup {[tail |-> p[2].tail, head |-> p[1].head]}) :
                    p \in meet}

\* loopGenSnippetChains, and the start of loopAppendChains.
GenSnippetChains ==
    /\ Idle
    /\ kind = "snapshot" => InsertFree
    /\ free # {} \/ snippets # {}
    /\ \E R \in InsertAll(snippets, free) :
       \E S \in IF free = {} THEN {snippets} ELSE Merge(R) :
           /\ snippets' = S
           /\ todo' = S
    /\ compound' = compound \cup free
    /\ free' = {}
    /\ chains' = tree.list
    /\ UNCHANGED <<kind, tree, deleted, cur, rollbacks>>

\* fork2 on branch c, from snippet.tail up: what it finds, and the snippet without the
\* blocks that c has.  reader is the branch that has the block below.
Found(what, branch, s) == [kind |-> what, branch |-> branch, snippet |-> s]
HeadOf(t, b) == IF b = Disk THEN t.disk ELSE t.br[b].head
RECURSIVE Walk(_, _, _, _)
Walk(t, c, s, reader) ==
    LET n    == Height(s.tail) + 1
        sb   == SubSeq(s.head, 1, n)
        kb   == GetKnotAndBranch(t, c, n)
        b2   == (CHOOSE x \in kb : TRUE)[1]
        r2   == (CHOOSE x \in kb : TRUE)[2]
    IN  IF s.tail = s.head THEN Found("empty", Disk, s)
        ELSE IF kb = {} THEN Found("insertable", reader, s)
        ELSE IF b2 = sb THEN Walk(t, c, [s EXCEPT !.tail = sb], r2)
        ELSE IF r2 = reader THEN Found("forky", reader, s)
        ELSE IF HeadOf(t, reader) = s.tail THEN Found("insertable", reader, s)
        ELSE Found("none", Disk, s)

\* fork2: the chains in any order, until one decides.
RECURSIVE Fork2(_, _, _)
Fork2(t, s, cs) ==
    LET try(c) ==
            LET kb == GetKnotAndBranch(t, c, Height(s.tail))
            IN  IF \E x \in kb : x[1] = s.tail
                THEN Walk(t, c, s, (CHOOSE x \in kb : TRUE)[2])
                ELSE Found("none", Disk, s)
    IN  IF cs = {} THEN {Found("none", Disk, s)}
        ELSE UNION {IF try(c).kind = "none" THEN Fork2(t, try(c).snippet, cs \ {c}) ELSE {try(c)} :
                    c \in cs}

\* The end of fork2: a snippet that hangs on the disk branch goes to the main branch.
Resolve(t, f) ==
    IF f.branch # Disk \/ f.kind \in {"none", "empty"} THEN f
    ELSE IF f.kind = "insertable" /\ t.br[t.main].head = f.snippet.tail
         THEN Found("insertable", t.main, f.snippet)
         ELSE Found("forky", t.main, f.snippet)

\* forkChain, and insertSnippet, which stops at the first block that does not fit.
Ascending(s) == [j \in 1 .. (Height(s.head) - Height(s.tail)) |-> SubSeq(s.head, 1, Height(s.tail) + j)]
ForkChain(t, b, s) ==
    FoldLeft(LAMBDA u, k : IF u.status = "panic" THEN u ELSE AddHead(u, ForkId(t), k),
             ForkBranch(t, b, Height(s.tail)), Ascending(s))
InsertSnippet(t, b, s) ==
    FoldLeft(LAMBDA u, k : IF u.br[b].head = PrevHash(k) THEN AddHead(u, b, k) ELSE u,
             t, Ascending(s))

\* Mutant: the blocks stay compounded.
DelFromCompoundNot(ks) == compound

\* delFromCompound, delHashFromCompound.
DelFromCompound(ks) == compound \ ks

\* One round of loopAppendChains, for a snippet with the lowest tail.
AppendSnippet(s) ==
    /\ Running
    /\ s \in todo
    /\ \A r \in todo : Height(s.tail) <= Height(r.tail)
    /\ FreeIds(tree) # {}
    /\ \E g \in Fork2(tree, s, chains) :
         LET f    == Resolve(tree, g)
             gone == SnippetBlocks(s) \ SnippetBlocks(f.snippet)
         IN  /\ tree' = CASE f.kind = "forky"      -> ForkChain(tree, f.branch, f.snippet)
                          [] f.kind = "insertable" -> InsertSnippet(tree, f.branch, f.snippet)
                          [] OTHER                 -> tree
             /\ IF f.kind = "none"
                THEN /\ snippets' = (snippets \ {s}) \cup {f.snippet}
                     /\ compound' = DelFromCompound(gone)
                ELSE /\ snippets' = snippets \ {s}
                     /\ compound' = DelFromCompound(SnippetBlocks(s))
    /\ todo' = todo \ {s}
    /\ chains' = IF todo' = {} THEN {} ELSE chains
    /\ UNCHANGED <<kind, free, deleted, cur, rollbacks>>

\* The end of Compact: checkCurrent, sometimes, without the insert lock; and checkReset.
Check(t) == t.br[t.main].tail = t.disk /\ CheckTree(t)
CheckCurrent ==
    /\ Idle
    /\ ~Check(tree)
    /\ tree' = [tree EXCEPT !.status = "check"]
    /\ UNCHANGED <<kind, free, compound, snippets, todo, chains, deleted, cur, rollbacks>>
Reset ==
    /\ Idle
    /\ kind = "account"
    /\ cur # "used"
    /\ Size(tree, tree.main) > 0
    /\ tree' = InitTree(tree.disk)
    /\ free' = {} /\ compound' = {} /\ snippets' = {}
    /\ cur' = IF cur = "none" THEN cur ELSE "gone"
    /\ UNCHANGED <<kind, todo, chains, deleted, rollbacks>>
----------------------------------------------------------------------------
(* The ledger grows: tryInsertItems, snapshotInsertItems, AddDirectBlock(s) *)

\* The block continues the ledger.  It may be any block: a batch may be stale, and the
\* generators add blocks the pool never had.
InsertBlock(k) ==
    /\ Idle /\ InsertFree
    /\ PrevHash(k) = tree.disk
    /\ NeedsBranch(tree, k) => FreeIds(tree) # {}
    /\ tree' = Collect(RootHeadAdd(tree, k))
    /\ UNCHANGED <<kind, free, compound, snippets, todo, chains, deleted, cur, rollbacks>>
----------------------------------------------------------------------------
(* The ledger is rolled back *)

\* rollbackCurrent, with the blocks deleted from the ledger.
Lowest(ks)  == CHOOSE k \in ks : \A j \in ks : Height(k) <= Height(j)
Highest(ks) == CHOOSE k \in ks : \A j \in ks : Height(j) <= Height(k)
Mismatch(t, ks) == PrevHash(Lowest(ks)) # t.disk \/ t.br[t.main].tail # Highest(ks)
RECURSIVE RollbackCurrent(_, _)
RollbackCurrent(t, ks) ==
    IF ks = {} \/ Linked(t, t.main) THEN t
    ELSE IF Mismatch(t, ks) THEN Panic(t)
    ELSE RollbackCurrent(AddTail(t, t.main, Highest(ks)), ks \ {Highest(ks)})

\* A snapshot block invalidates account blocks, or the snapshot chain is rolled back with
\* an account chain: the ledger deletes the blocks from height n on (delToHeight).
DeleteFromLedger(n) ==
    /\ Running /\ InsertFree
    /\ kind = "account" \/ Idle
    /\ rollbacks < MaxRollbacks
    /\ n \in 1 .. Height(tree.disk)
    /\ deleted' = Path(SubSeq(tree.disk, 1, n - 1), tree.disk)
    /\ tree' = [tree EXCEPT !.disk = SubSeq(@, 1, n - 1)]
    /\ rollbacks' = rollbacks + 1
    /\ UNCHANGED <<kind, free, compound, snippets, todo, chains, cur>>

\* Then rollbackCurrent gives them to the pool: it looks at the main branch once, and adds
\* the highest first.  Compact goes on, and may reset the pool.
RollbackStart ==
    /\ Running
    /\ deleted # {} /\ cur = "none"
    /\ IF Linked(tree, tree.main) THEN deleted' = {} /\ UNCHANGED <<tree, cur>>
       ELSE IF Mismatch(tree, deleted) THEN tree' = Panic(tree) /\ UNCHANGED <<deleted, cur>>
       ELSE cur' = "read" /\ UNCHANGED <<tree, deleted>>
    /\ UNCHANGED <<kind, free, compound, snippets, todo, chains, rollbacks>>
\* Mutant: the end is not seen.
RollbackOneNoEnd ==
    /\ Running
    /\ cur # "none"
    /\ tree' = AddTail(tree, tree.main, Highest(deleted))
    /\ deleted' = deleted \ {Highest(deleted)}
    /\ UNCHANGED <<kind, free, compound, snippets, todo, chains, cur, rollbacks>>

RollbackOne ==
    /\ Running
    /\ cur # "none"
    /\ tree' = IF cur = "gone" THEN [tree EXCEPT !.hashes = @ \cup {Highest(deleted)}]
               ELSE AddTail(tree, tree.main, Highest(deleted))
    /\ deleted' = deleted \ {Highest(deleted)}
    /\ cur' = CASE deleted' = {} -> "none" [] cur = "gone" -> "gone" [] OTHER -> "used"
    /\ UNCHANGED <<kind, free, compound, snippets, todo, chains, rollbacks>>
----------------------------------------------------------------------------
(* The main branch changes *)

\* What the caller makes of an error: it stops the node, or it logs the error.
Settle(t) == IF t.status = "panic" THEN t ELSE Collect([t EXCEPT !.status = "ok"])
Must(t)   == IF t.status = "err" THEN [t EXCEPT !.status = "stop"] ELSE Settle(t)

\* Mutant: rollbackCurrent is left out.
RollbackAndSwitchLedgerOnly(t, b, n) == SwitchMainTo([t EXCEPT !.disk = SubSeq(@, 1, n - 1)], b)

\* delToHeight(n), rollbackCurrent, CurrentModifyToChain.
RollbackAndSwitch(t, b, n) ==
    LET disk == SubSeq(t.disk, 1, n - 1)
        t1   == RollbackCurrent([t EXCEPT !.disk = disk], Path(disk, t.disk))
    IN  IF t1.status = "panic" THEN t1 ELSE SwitchMainTo(t1, b)

\* The block after the fork point at height i is in the ledger.
ForkInLedger(t, i) == i + 1 <= Height(t.br[t.main].tail)

\* ForkAccountTo: the outcomes, each with whether the ledger was rolled back.
Outcome(t, back) == [tree |-> t, back |-> back]
ForkAccountTo(t, k) ==
    LET to(b) ==
            IF b = t.main THEN {Outcome(t, FALSE)}
            ELSE {IF KeyPoint(t, b, i) = {} THEN Outcome(Err(t), FALSE)
                  ELSE IF ForkInLedger(t, i)
                       THEN Outcome(RollbackAndSwitch(t, b, i + 1), TRUE)
                       ELSE Outcome(SwitchMainTo(t, b), FALSE) : i \in ForkHeights(t, b)}
                 \cup (IF ForkHeights(t, b) = {} THEN {Outcome(Err(t), FALSE)} ELSE {})
    IN  IF FindBranch(t, k) = {} THEN {Outcome(u, FALSE) : u \in SwitchMainToEmpty(t)}
        ELSE UNION {to(b) : b \in FindBranch(t, k)}

\* pendingAccountTo, and ForkAccountTo when the fork point is in the ledger.
PendingAccountTo(t, k) ==
    LET to(b) ==
            IF b = t.main \/ ForkHeights(t, b) = {} THEN {Outcome(t, FALSE)}
            ELSE UNION {IF i < Height(t.br[t.main].tail) THEN ForkAccountTo(t, k)
                        ELSE {Outcome(SwitchMainTo(t, b), FALSE)} : i \in ForkHeights(t, b)}
    IN  IF FindBranch(t, k) = {} THEN {Outcome(t, FALSE)}
        ELSE UNION {to(b) : b \in FindBranch(t, k)}

Apply(o) ==
    /\ o.back => rollbacks < MaxRollbacks
    /\ rollbacks' = IF o.back THEN rollbacks + 1 ELSE rollbacks

\* modifyCurrentAccounts, for a snapshot chain that contains k: an error is returned, and
\* the snapshot pool forks back.
ModifyCurrentAccount(k) ==
    /\ Idle /\ InsertFree
    /\ kind = "account"
    /\ FreeIds(tree) # {}
    /\ \E o \in ForkAccountTo(tree, k) : Apply(o) /\ tree' = Settle(o.tree)
    /\ UNCHANGED <<kind, free, compound, snippets, todo, chains, deleted, cur>>

\* snapshotPendingFix: a snapshot block of the batch waits for k, which the main branch
\* did not have when the batch was made; it may have k by now.
SnapshotPendingFix(k) ==
    /\ Idle /\ InsertFree
    /\ kind = "account"
    /\ FreeIds(tree) # {}
    /\ \E o \in PendingAccountTo(tree, k) : Apply(o) /\ tree' = Must(o.tree)
    /\ UNCHANGED <<kind, free, compound, snippets, todo, chains, deleted, cur>>

\* checkFork: some block of b that is complete is LimitLongestNum above the head of the
\* main branch.  The difference is unsigned and wraps; 2^16 stands for 2^64, far above
\* every height.
LongEnough(t, b) ==
    \E h \in Height(t.br[b].tail) .. Height(t.br[b].head) :
        \E real \in Height(t.br[t.main].tail) .. Height(t.br[t.main].head) :
            h > real /\ (h - LimitLongestNum) % 2^16 >= Height(t.br[t.main].head)

\* snapshotFork to branch b: when the fork point is not above the head of the ledger, it
\* is rolled back itself.  The ledger does not delete its first block.
SnapshotForkTo(t, b) ==
    LET forks == ForkHeights(t, b) \ {0}
    IN  IF b = t.main THEN {Outcome(t, FALSE)}
        ELSE IF forks = {} THEN {Outcome(Err(t), FALSE)}
        ELSE {IF i > Height(t.br[t.main].tail) THEN Outcome(SwitchMainTo(t, b), FALSE)
              ELSE Outcome(RollbackAndSwitch(t, b, i), TRUE) : i \in forks}

\* snapshotInsert, up to n blocks.
RECURSIVE InsertMain(_, _)
InsertMain(t, n) ==
    IF n = 0 \/ t.status = "panic" \/ Size(t, t.main) = 0 THEN t
    ELSE InsertMain(RootHeadAdd(t, CHOOSE k \in GetKnot(t, t.main, Height(t.disk) + 1) : TRUE), n - 1)

\* checkFork: when the accounts do not follow, or a block is not inserted after some were,
\* it forks back to the branch that was main.
SnapshotFork(b) ==
    /\ Idle /\ InsertFree
    /\ kind = "snapshot"
    /\ b \in tree.list \ {tree.main}
    /\ LongEnough(tree, b)
    /\ \E o \in SnapshotForkTo(tree, b) :
         /\ Apply(o)
         /\ \/ tree' = Settle(o.tree)
            \/ /\ o.tree.status = "ok"
               /\ \E n \in 0 .. (IF o.back THEN Size(o.tree, b) ELSE 0) :
                  \E r \in SnapshotForkTo(InsertMain(o.tree, n), tree.main) : tree' = Must(r.tree)
    /\ UNCHANGED <<kind, free, compound, snippets, todo, chains, deleted, cur>>

\* chooseAndSwitchCurrentForMake: a brother of a main branch that makes no progress.
SwitchToBrother ==
    /\ Idle /\ InsertFree
    /\ kind = "account"
    /\ \E b \in Brothers(tree, tree.main) :
         tree' = Settle(SwitchMainTo(tree, b))
    /\ UNCHANGED <<kind, free, compound, snippets, todo, chains, deleted, cur, rollbacks>>

\* loopDelUselessChain: any snippet may be old, any leaf may be stale.
DelUselessChain ==
    /\ Idle /\ InsertFree
    /\ \E old \in SUBSET snippets :
         /\ snippets' = snippets \ old
         /\ compound' = DelFromCompound(Held(old))
    /\ \E stale \in SUBSET {b \in tree.list \ {tree.main} : IsLeaf(tree, b)} :
       \E order \in SetToSeqs(tree.list \ {tree.main}) :
         tree' = Collect(PruneTree(tree, order, stale))
    /\ UNCHANGED <<kind, free, todo, chains, deleted, cur, rollbacks>>
----------------------------------------------------------------------------
Next ==
    \/ \E k \in Blocks : AddBlock(k) \/ InsertBlock(k) \/ ModifyCurrentAccount(k) \/ SnapshotPendingFix(k)
    \/ GenSnippetChains
    \/ \E s \in todo : AppendSnippet(s)
    \/ CheckCurrent \/ Reset
    \/ \E n \in 1 .. Height(tree.disk) : DeleteFromLedger(n)
    \/ RollbackStart \/ RollbackOne
    \/ \E b \in tree.list : SnapshotFork(b)
    \/ SwitchToBrother
    \/ DelUselessChain

Spec == Init /\ [][Next]_vars
----------------------------------------------------------------------------
(* Properties *)

\* Branches of the tree that can be found.
Live == tree.list \cup {tree.main}

\* The blocks of the tree, and those of a chain that are somewhere.
InTree(t) == UNION {t.br[b].knots : b \in Referenced(t)}
Stored(t, d) == Path(<<>>, t.disk) \cup d \cup InTree(t)

\* The types; the snippets being appended are snippets of the pool, and rollbackCurrent
\* ends when the last deleted block is back in the pool.
TypeOK ==
    /\ kind \in {"account", "snapshot"}
    /\ free \subseteq Blocks /\ compound \subseteq Blocks /\ deleted \subseteq Blocks
    /\ \A s \in snippets : s.head \in Blocks /\ s.tail \in Blocks \cup {<<>>}
    /\ todo \subseteq snippets /\ chains \subseteq BranchIds
    /\ cur \in {"none", "read", "used", "gone"} /\ (cur # "none" => deleted # {})
    /\ rollbacks \in 0 .. MaxRollbacks
    /\ tree.status \in {"ok", "check", "stop", "panic"}
    /\ tree.list \subseteq BranchIds /\ tree.main \in BranchIds
    /\ tree.hashes \subseteq Blocks /\ tree.disk \in Blocks \cup {<<>>}

\* No operation on the tree meets one of its panics: blocks are always added and removed
\* at the ends of a branch, a branch made main is linked to the ledger, a child always finds
\* a branch to hang on, and the blocks a rollback returns are those above the ledger.  Nor does
\* checkFork panic because it cannot fork back.
NoPanic == tree.status # "panic" /\ (kind = "snapshot" => tree.status # "stop")

\* checkCurrent, which panics when the main branch does not continue the ledger or a
\* branch does not hang on its root, can only fail while a rollback is between the ledger and
\* the pool.
CheckOnlyInWindow == tree.status = "check" => deleted # {}

\* Whatever was forked, switched, pruned and rolled back, GetKnot of a branch finds at every
\* height up to its head the block its head descends from.
Readable ==
    InsertFree /\ Running =>
        \A b \in Live : \A n \in 0 .. Height(tree.br[b].head) :
            GetKnot(tree, b, n) = {SubSeq(tree.br[b].head, 1, n)}

\* compoundBlocks are exactly the blocks of the snippets: a block that leaves its snippet can
\* be received again, a block of a snippet is not received twice.
CompoundHeld == compound = Held(snippets)

\* Every branch but the main one is a child of its root, where a switch and a prune look
\* for it.
Forest == Running => \A b \in Live \ {tree.main} : b \in tree.br[tree.br[b].root].children

\* No step, other than rollbackCurrent on a tree that was reset under it, leaves in the index
\* of hashes a block that no branch has: addBlock would refuse the block ever after.
IndexHeld ==
    [][tree.hashes \subseteq InTree(tree) =>
           tree'.hashes \subseteq InTree(tree') \/ cur = "gone"]_tree

\* A block that reached the tree is in the tree or in the ledger, or on its way between them,
\* until useless chains are deleted or the pool is reset: no switch, fork, insertion or
\* rollback loses one.
KeepsBlocks ==
    [][\/ Stored(tree, deleted) \subseteq Stored(tree', deleted')
       \/ DelUselessChain \/ Reset
       \/ RollbackStart /\ Linked(tree, tree.main)
       \/ cur = "gone"]_<<tree, deleted>>
=============================================================================
