------------------------------ MODULE MCLedger ------------------------------
(***************************************************************************)
(* What the ledger keeps in memory, above the files: the pool of blocks    *)
(* that are not in the chain yet (BCPool), the batches that carry them     *)
(* there (InsertQueue), and the cache of the chain (ChainCache).  The      *)
(* modules share no state, so a behaviour is one of the pool, one of the   *)
(* batches or one of the cache.                                            *)
(*                                                                         *)
(* The pool: a chain whose second block exists twice, in a tree of at most *)
(* three branches.  The ids are interchangeable: where the tree picks a    *)
(* free one with CHOOSE, any other gives the same tree with ids renamed.   *)
(*                                                                         *)
(* The cache: two accounts, two blocks, five snapshot blocks above the     *)
(* genesis; the window of quota_list.go, 75, is 2; the list, 600, is 5;    *)
(* and a rollback deletes 2, not 120, at once.                             *)
(*                                                                         *)
(* The batches: two accounts with two blocks each, and two snapshot blocks *)
(* over them, in four shapes: a dialogue that needs a level for each       *)
(* block; two blocks that cross; snapshot blocks that follow each other    *)
(* without a block between them; a snapshot block with a block whose send  *)
(* it leaves out.  Three levels are not enough for all of them.            *)
(***************************************************************************)
EXTENDS BCPool, InsertQueue, TLC

CONSTANTS id1, id2, id3

Chain == {<<1>>, <<1, 1>>, <<1, 2>>}
Ids == {id1, id2, id3}
Symmetry == Permutations(Ids)

VARIABLES part, under, insertedList, store, heights, latestAccountBlocks,
          list, usedStart, globalUsed, short

cacheVars == <<under, insertedList, store, heights, latestAccountBlocks,
               list, usedStart, globalUsed, short>>

C == INSTANCE ChainCache WITH
        Addrs <- {"a", "b"}, Used <- {1, 2}, PoW <- {2},
        UsedAccumulateHeight <- 2, ListMaxLength <- 5, DeleteAtOnce <- 2,
        MaxHeight <- 6, MaxBlocks <- 2, ledger <- under

A(h) == [acc |-> "a", h |-> h]
B(h) == [acc |-> "b", h |-> h]
Shape(a2, b1, b2, s1, s2) ==
    [from |-> (A(1) :> None) @@ (A(2) :> a2) @@ (B(1) :> b1) @@ (B(2) :> b2),
     content |-> <<s1, s2>>]
Confirms(a, b) == [c \in {"a", "b"} |-> IF c = "a" THEN a ELSE b]
MCAccounts == {"a", "b"}
MCShapes == {Shape(B(1), A(1), A(2), Confirms(1, 1), Confirms(2, 2)),
             Shape(B(1), None, A(1), Confirms(1, 0), Confirms(2, 1)),
             Shape(None, A(2), None, Confirms(2, 1), Confirms(2, 1)),
             Shape(None, A(1), A(1), Confirms(0, 1), Confirms(1, 1))}

\* The blocks of the batches when they are not the part that runs.
NoQueue == QueueInit /\ content = <<Confirms(0, 1), Confirms(1, 1)>>

MCInit == /\ Init /\ C!Init
          /\ \/ part = "pool" /\ NoQueue
             \/ part = "cache" /\ kind = "account" /\ NoQueue
             \/ part = "queue" /\ kind = "account" /\ QueueInit
MCNext == \/ part = "pool" /\ Next /\ UNCHANGED <<part, cacheVars, queueVars>>
          \/ part = "cache" /\ C!Next /\ UNCHANGED <<part, vars, queueVars>>
          \/ part = "queue" /\ QueueNext /\ UNCHANGED <<part, vars, cacheVars>>
MCSpec == MCInit /\ [][MCNext]_<<part, vars, cacheVars, queueVars>>

\* GetQuotaUsedList gives the quota used under the last snapshot blocks and by the
\* unconfirmed blocks, after any insertions, rollbacks and restarts.
QuotaWindow == C!QuotaWindow

\* GetGlobalQuota is the sum over that window.
GlobalQuota == C!GlobalQuota

\* What the cache answers about account blocks is what the chain holds.
CacheAgrees == C!CacheAgrees
=============================================================================
