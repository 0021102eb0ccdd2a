-------------------------------- MODULE Tree --------------------------------
(***************************************************************************)
(* The tree of forks of one chain, ledger/pool/tree.                       *)
(*                                                                         *)
(* A chain of the pool is a tree: the blocks already in the ledger are the *)
(* disk branch, its root; the main branch continues the disk branch and is *)
(* what the pool inserts next; every other branch leaves another one at    *)
(* its tail.  A branch holds the blocks ("knots") after its tail, up to    *)
(* its head, and finds the lower ones in the branches below it.            *)
(*                                                                         *)
(* A block is the sequence of choices that leads to it: a hash commits to  *)
(* everything before it, so the previous hash is Front and the height is   *)
(* the length.  <<>> is the block of height EmptyHeight.                   *)
(*                                                                         *)
(* The operators map a tree to the tree an operation leaves.  status is    *)
(* what the operation returns: "ok", "err", or "panic" after a panic of    *)
(* the code, when the rest of the value means nothing.                     *)
(***************************************************************************)
EXTENDS Naturals, Sequences, FiniteSets
LOCAL INSTANCE SequencesExt
LOCAL INSTANCE FiniteSetsExt

CONSTANT BranchIds   \* the ids of the branches that may exist at a time

Disk == 0            \* the id of the disk branch, tree.root

ASSUME TreeAssumption == IsFiniteSet(BranchIds) /\ BranchIds # {} /\ Disk \notin BranchIds

Height(k)   == Len(k)
PrevHash(k) == Front(k)

\* newBranch(newBranchBase(...), root), at block k.
NewBranch(k, root) ==
    [tail |-> k, head |-> k, knots |-> {}, root |-> root, children |-> {}]

\* A branch that no longer exists.
NoBranch == NewBranch(<<>>, Disk)

\* tree.Init, over a disk branch whose head is disk.
FirstId == CHOOSE b \in BranchIds : TRUE
InitTree(disk) ==
    [br     |-> [b \in BranchIds |-> IF b = FirstId THEN NewBranch(disk, Disk) ELSE NoBranch],
     list   |-> {FirstId},       \* branchList
     main   |-> FirstId,
     disk   |-> disk,            \* head of the disk branch
     hashes |-> {},
     status |-> "ok"]

Panic(t) == [t EXCEPT !.status = "panic"]
Err(t)   == [t EXCEPT !.status = "err"]

\* newBranchId: an id that no branch still reachable has.
RECURSIVE Reachable(_, _)
Reachable(t, bs) ==
    LET more == bs \cup (UNION {t.br[b].children \cup {t.br[b].root} : b \in bs} \ {Disk})
    IN  IF more = bs THEN bs ELSE Reachable(t, more)
Referenced(t) == Reachable(t, t.list \cup {t.main})
FreeIds(t) == BranchIds \ Referenced(t)

\* What the garbage collector takes.
Collect(t) ==
    [t EXCEPT !.br = [b \in BranchIds |-> IF b \in Referenced(t) THEN @[b] ELSE NoBranch]]
----------------------------------------------------------------------------
(* branch_base.go *)

Size(t, b) == Height(t.br[b].head) - Height(t.br[b].tail)

\* heightBlocks[height], as a set of at most one block.
At(knots, n) == {k \in knots : Height(k) = n}
Put(knots, k) == (knots \ At(knots, Height(k))) \cup {k}

\* branchBase.addHead.
BranchAddHead(t, b, k) ==
    IF t.br[b].head # PrevHash(k) THEN Panic(t)
    ELSE [t EXCEPT !.br[b] = [@ EXCEPT !.head = k, !.knots = Put(@, k)]]

\* branchBase.removeTail.
BranchRemoveTail(t, b, k) ==
    IF t.br[b].tail # PrevHash(k) \/ Height(k) > Height(t.br[b].head) THEN Panic(t)
    ELSE [t EXCEPT !.br[b] = [@ EXCEPT !.tail = k, !.knots = @ \ At(@, Height(k))]]

\* Mutant: the block is not stored.
BranchAddTailTailOnly(t, b, k) ==
    IF t.br[b].tail # k THEN Panic(t) ELSE [t EXCEPT !.br[b].tail = PrevHash(k)]

\* branchBase.addTail.
BranchAddTail(t, b, k) ==
    IF t.br[b].tail # k THEN Panic(t)
    ELSE [t EXCEPT !.br[b] = [@ EXCEPT !.tail = PrevHash(k), !.knots = Put(@, k)]]
----------------------------------------------------------------------------
(* branch.go: reading a branch *)

\* GetKnot(height, false), of a branch or of the disk branch.
Local(t, b, n) ==
    IF b = Disk THEN {SubSeq(t.disk, 1, m) : m \in {n} \cap (0 .. Height(t.disk))}
    ELSE At(t.br[b].knots, n)

\* The walk of getKnotAndBranch from branch b down its roots.
RECURSIVE Refer(_, _, _, _)
Refer(t, b, n, refers) ==
    IF Local(t, b, n) # {} THEN {<<k, b>> : k \in Local(t, b, n)}
    ELSE IF b = Disk \/ b \in refers THEN {}
    ELSE Refer(t, t.br[b].root, n, refers \cup {b})

\* GetKnotAndBranch, GetHashAndBranch: at most one pair.
GetKnotAndBranch(t, b, n) ==
    IF b # Disk /\ n > Height(t.br[b].head) THEN {} ELSE Refer(t, b, n, {})

\* GetKnot(height, true).
GetKnot(t, b, n) == {kb[1] : kb \in GetKnotAndBranch(t, b, n)}

\* localContains: contains(height, hash, false).
LocalContains(t, b, k) ==
    /\ Height(k) > Height(t.br[b].tail) /\ Height(k) <= Height(t.br[b].head)
    /\ k \in t.br[b].knots

\* ContainsKnot(height, hash, true), of a branch that is not the disk branch.
ContainsKnot(t, b, k) ==
    LocalContains(t, b, k) \/ k \in GetKnot(t, t.br[b].root, Height(k))

\* Linked(root), for the disk branch.
Linked(t, b) == t.br[b].tail = t.disk

IsLeaf(t, b) == t.br[b].children = {}
----------------------------------------------------------------------------
(* branch.go: moving branches *)

RemoveChild(t, b, v) == [t EXCEPT !.br[b].children = @ \ {v}]
AddChild(t, b, v)    == [t EXCEPT !.br[b].children = @ \cup {v}]
SetRoot(t, v, new) ==
    LET t1 == [t EXCEPT !.br[v].root = new]
    IN  IF new = Disk THEN t1 ELSE AddChild(t1, new, v)

\* Mutant: the new root does not get the child.
UpdateRootSimpleOneWay(t, v, old, new) ==
    [(IF old = Disk THEN t ELSE RemoveChild(t, old, v)) EXCEPT !.br[v].root = new]

\* updateRootSimple.
UpdateRootSimple(t, v, old, new) ==
    SetRoot(IF old = Disk THEN t ELSE RemoveChild(t, old, v), v, new)

\* The loop over the children of b that no longer hang on a block of b: each goes
\* to the first of the branches that has its tail.  The disk branch does not
\* implement ContainsKnot.
RECURSIVE Rehang(_, _, _, _)
Rehang(t, b, v, to) ==
    IF to = <<>> \/ Head(to) = Disk THEN Panic(t)
    ELSE IF ContainsKnot(t, Head(to), t.br[v].tail)
         THEN UpdateRootSimple(t, v, b, Head(to))
         ELSE Rehang(t, b, v, Tail(to))
RehangChildren(t, b, to) ==
    FoldSet(LAMBDA v, u : IF u.status = "panic" \/ LocalContains(u, b, u.br[v].tail)
                          THEN u ELSE Rehang(u, b, v, to),
            t, t.br[b].children)

\* Mutant: the children stay where they are.
UpdateRootKeepsChildren(t, b, old, new) == SetRoot(t, b, new)

\* updateRoot.
UpdateRoot(t, b, old, new) == RehangChildren(SetRoot(t, b, new), b, <<new, old>>)

\* updateChildrenForRemoveTail.
UpdateChildrenForRemoveTail(t, b, root) ==
    IF root = Disk THEN t ELSE RehangChildren(t, b, <<root>>)

\* exchangeRoot: b takes the place of its root, and the root hangs on b.  The knots
\* that b takes stay in the root as well: the loop that should remove them, from
\* rootTailHeight + 1 to rootTailHeight, does nothing.
TakeTail(t, b, root) ==
    FoldLeft(LAMBDA u, i : IF u.status = "panic" \/ Local(u, root, i) = {} THEN u
                           ELSE BranchAddTail(u, b, CHOOSE k \in Local(u, root, i) : TRUE),
             t, [j \in 1 .. (Height(t.br[b].tail) - Height(t.br[root].tail)) |->
                    Height(t.br[b].tail) + 1 - j])
ExchangeRoot(t, b) ==
    LET root == t.br[b].root
        low  == t.br[root].root
        t1   == IF low = Disk THEN t ELSE RemoveChild(t, low, root)
        t2   == TakeTail(t1, b, root)
    IN  IF /\ t.br[b].tail # t.br[root].tail
           /\ ~ ( /\ Height(t.br[root].tail) <= Height(t.br[b].tail)
                  /\ Height(t.br[root].head) >= Height(t.br[b].tail))
        THEN Err(t1)
        ELSE IF t2.status = "panic" THEN t2
        ELSE UpdateRoot(UpdateRootSimple(t2, b, root, low), root, low, b)

RECURSIVE ExchangeAllRoot(_, _)
ExchangeAllRoot(t, b) ==
    IF t.status # "ok" \/ t.br[b].root = Disk THEN t
    ELSE ExchangeAllRoot(ExchangeRoot(t, b), b)

\* destroy: the knots of b leave the tree.
Destroy(t, b) ==
    LET k == t.br[b].knots
    IN  IF k # {SubSeq(t.br[b].head, 1, n) :
                    n \in Height(t.br[b].tail) + 1 .. Height(t.br[b].head)}
        THEN Panic(t)
        ELSE [t EXCEPT !.hashes = @ \ k,
                       !.br[b] = [@ EXCEPT !.head = t.br[b].tail, !.knots = {}]]

\* tree.removeBranch; its error is only logged.
RemoveBranch(t, b) ==
    LET root == t.br[b].root
        t1 == [RemoveChild(t, root, b) EXCEPT !.list = @ \ {b}]
    IN  IF b = t.main \/ root = Disk THEN t
        ELSE IF IsLeaf(t, b) THEN Destroy(t1, b)
        ELSE IF Size(t, b) = 0
             THEN [t1 EXCEPT !.br[root].children = @ \cup t.br[b].children]
             ELSE t

\* prune: first the branches below, then the lowest knots of b that its root has.
RECURSIVE Prune(_, _)
Prune(t0, b) ==
    LET t     == IF t0.br[b].root = Disk THEN t0 ELSE Prune(t0, t0.br[b].root)
        root  == t.br[b].root
        low   == Height(t.br[b].tail)
        same(i) == GetKnot(t, root, i) = Local(t, b, i) /\ GetKnot(t, root, i) # {}
        top   == Max({n \in low .. Height(t.br[b].head) : \A i \in low + 1 .. n : same(i)})
        dups  == [j \in 1 .. (top - low) |-> CHOOSE k \in Local(t, b, low + j) : TRUE]
        inDisk == {k \in Range(dups) :
                       \E kb \in GetKnotAndBranch(t, root, Height(k)) : kb[2] = Disk}
        t1    == FoldLeft(LAMBDA u, k : IF u.status = "panic" THEN u
                                        ELSE BranchRemoveTail(u, b, k), t, dups)
        t2    == UpdateChildrenForRemoveTail([t1 EXCEPT !.hashes = @ \ inDisk], b, root)
    IN  IF t.status = "panic" \/ top = low THEN t
        ELSE IF t2.status = "panic" \/ b = t.main \/ Size(t2, b) # 0 THEN t2
        ELSE RemoveBranch(t2, b)
----------------------------------------------------------------------------
(* checker.go *)

\* CheckTree.
CheckLink(t, b) ==
    LET root == t.br[b].root
        tail == t.br[b].tail
    IN  IF root = Disk THEN b = t.main /\ Linked(t, b)
        ELSE IF root = t.main THEN GetKnot(t, root, Height(tail)) = {tail}
        ELSE Local(t, root, Height(tail)) = {tail}
CheckTree(t) == \A b \in t.list : CheckLink(t, b)

\* CheckTreeRing: the branches below the main branch, each met once.
RECURSIVE Below(_, _)
Below(t, bs) ==
    LET more == bs \cup UNION {t.br[b].children : b \in bs}
    IN  IF more = bs THEN bs ELSE Below(t, more)
CheckTreeRing(t) ==
    LET below == Below(t, t.br[t.main].children)
    IN  /\ t.main \notin below
        /\ \A b, c \in {t.main} \cup below :
               b # c => t.br[b].children \cap t.br[c].children = {}
----------------------------------------------------------------------------
(* tree_impl.go *)

AddHead(t, b, k) == [BranchAddHead(t, b, k) EXCEPT !.hashes = @ \cup {k}]
AddTail(t, b, k) == [BranchAddTail(t, b, k) EXCEPT !.hashes = @ \cup {k}]
\* Mutant: the hash stays in the index.
RemoveTailKeepsHash(t, b, k) == BranchRemoveTail(t, b, k)
RemoveTail(t, b, k) == [BranchRemoveTail(t, b, k) EXCEPT !.hashes = @ \ {k}]

\* ForkBranch(b, height, hash): a new branch at the block b has at that height.  The
\* caller has seen that FreeIds(t) is not empty; ForkId is the id of the branch.
ForkId(t) == CHOOSE b \in FreeIds(t) : TRUE
ForkBranch(t, b, n) ==
    IF GetKnot(t, b, n) = {} THEN Panic(t)
    ELSE LET k   == CHOOSE x \in GetKnot(t, b, n) : TRUE
             new == ForkId(t)
         IN  [AddChild(t, b, new) EXCEPT !.br[new] = NewBranch(k, b),
                                         !.list = @ \cup {new}]

\* RootHeadAdd(k): k is the new head of the disk branch.
RootHeadAdd(t0, k) ==
    LET t    == [t0 EXCEPT !.disk = k]
        main == t.main
        new  == ForkId(t)
        t1   == ForkBranch(t, main, Height(k) - 1)
        t2   == BranchRemoveTail(BranchAddHead(t1, new, k), new, k)
        t3   == UpdateRoot(UpdateRootSimple(t2, new, main, Disk), main, t.br[main].root, new)
    IN  IF PrevHash(k) # t.br[main].tail THEN Panic(t)
        ELSE IF t.br[main].head = PrevHash(k)
             THEN BranchRemoveTail(BranchAddHead(t, main, k), main, k)
        ELSE IF LocalContains(t, main, k) THEN RemoveTail(t, main, k)
        ELSE IF t2.status = "panic" THEN t2
        ELSE [t3 EXCEPT !.main = new]

\* RootHeadAdd needs a new branch for k.
NeedsBranch(t, k) ==
    t.br[t.main].head # PrevHash(k) /\ ~LocalContains(t, t.main, k)

\* FindBranch: the main branch first, then any.
FindBranch(t, k) ==
    IF k \in t.br[t.main].knots THEN {t.main} ELSE {b \in t.list : k \in t.br[b].knots}

Brothers(t, b) == {v \in t.br[b].children : t.br[v].tail = t.br[b].tail}

\* SwitchMainTo.
SetMain(t, b) ==
    IF t.status # "ok" THEN t ELSE IF Linked(t, b) THEN [t EXCEPT !.main = b] ELSE Panic(t)
SwitchMainTo(t, b) == IF b = t.main THEN t ELSE SetMain(ExchangeAllRoot(Prune(t, b), b), b)

\* SwitchMainToEmpty, with the empty branch that findEmptyForHead finds first.
EmptyForHead(t) == {b \in t.list : Size(t, b) = 0 /\ t.br[b].head = t.disk}
SwitchMainToEmpty(t) ==
    IF Size(t, t.main) = 0 THEN {t}
    ELSE IF EmptyForHead(t) # {} THEN {SwitchMainTo(t, b) : b \in EmptyForHead(t)}
    ELSE {SwitchMainTo(ForkBranch(t, t.main, Height(t.disk)), ForkId(t))}

\* FindForkPointFromMain: the highest block the two branches have in common, and the
\* block of the longer one above it; nothing when one of them has a gap above.
Longer(t, b)  == IF Height(t.br[b].head) > Height(t.br[t.main].head) THEN b ELSE t.main
Shorter(t, b) == IF Longer(t, b) = b THEN t.main ELSE b
ForkHeights(t, b) ==
    LET l == Longer(t, b)
        s == Shorter(t, b)
        n == 0 .. Height(t.br[s].head)
    IN  {i \in n : /\ GetKnot(t, l, i) = GetKnot(t, s, i) /\ GetKnot(t, l, i) # {}
                   /\ \A j \in n : j > i => /\ GetKnot(t, l, j) # GetKnot(t, s, j)
                                            /\ GetKnot(t, l, j) # {} /\ GetKnot(t, s, j) # {}}
KeyPoint(t, b, i) == GetKnot(t, Longer(t, b), i + 1)

\* PruneTree: every branch is pruned; then the leaves that are empty, or in stale (not
\* updated for 20 minutes), are removed.  order is the order of the map; it may differ in the
\* two loops, but prune starts with the roots and does not depend on it.
IsGarbage(t, b, stale) == IsLeaf(t, b) /\ (b \in stale \/ Size(t, b) = 0)
PruneTree(t, order, stale) ==
    IF ~CheckTreeRing(t) THEN Panic(t) ELSE
    LET prune(u, b)  == IF u.status = "panic" \/ b \notin u.list \/ b = u.main THEN u
                        ELSE Prune(u, b)
        remove(u, b) == IF u.status = "panic" \/ b \notin u.list \/ ~IsGarbage(u, b, stale) THEN u
                        ELSE RemoveBranch(u, b)
    IN  FoldLeft(remove, FoldLeft(prune, t, order), order)
=============================================================================
