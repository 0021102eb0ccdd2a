------------------------- MODULE InsertQueueProofs -------------------------
(***************************************************************************)
(* The steps that make a batch (MakeProofs) and those that insert it       *)
(* (InsertProofs) keep Inv, so every block is inserted in order.           *)
(***************************************************************************)
EXTENDS MakeProofs, InsertProofs

\* Every step keeps the invariant.
LEMMA NextInv == ASSUME QueueAssumption, Inv, [QueueNext]_queueVars PROVE Inv'
  <1>1. CASE MakeQueue \/ MakeSnapshotBlock \/ NoSnapshotBlock \/ AddSItem \/ PackagesEnd
    BY <1>1, MakeQueueInv, MakeSnapshotBlockInv, NoSnapshotBlockInv, AddSItemInv, PackagesEndInv
  <1>2. CASE \E accounts \in SUBSET Accounts : PendingFix(accounts)
    BY <1>2, PendingFixInv
  <1>3. CASE \E a \in Accounts : DrainAccount(a) \/ InsertAccountBlock(a) \/ AddDirectAccountBlock(a)
    BY <1>3, DrainAccountInv, InsertAccountBlockInv, AddDirectAccountBlockInv
  <1>4. CASE \E a \in Accounts, n \in 0 .. Length : MakePackage(a, n)
    BY <1>4, MakePackageInv
  <1>5. CASE \E tail, head \in 1 .. Snapshots : tail <= head /\ InsertChunks(tail, head)
    BY <1>5, InsertChunksInv
  <1>6. CASE \E b \in Block : ChunkAccount(b)
    BY <1>6, ChunkAccountInv
  <1>7. CASE ChunkSnapshot \/ ChunksEnd
    BY <1>7, ChunkSnapshotInv, ChunksEndInv
  <1>8. CASE \E owner \in Owner : FailBucket(owner)
    BY <1>8, FailBucketInv
  <1>9. CASE InsertSnapshotBlock \/ LevelDone \/ AddDirectSnapshotBlock \/ CheckFork
    BY <1>9, InsertSnapshotBlockInv, LevelDoneInv, AddDirectSnapshotBlockInv, CheckForkInv
  <1>10. CASE UNCHANGED queueVars
    BY <1>10, StillInv
  <1> QED BY <1>1, <1>2, <1>3, <1>4, <1>5, <1>6, <1>7, <1>8, <1>9, <1>10 DEF QueueNext

\* Every block of a batch finds its predecessor and all that it refers to in the ledger when
\* its turn comes (InOrder), for any accounts, chains, snapshot blocks and number of levels,
\* however the worker, the parallel buckets of a level, the wallet and the producer interleave.
THEOREM InsertOrder == QueueSpec => []InOrder
  <1>1. QueueInit => Inv
    BY QueueAssumption, InitInv
  <1>2. Inv /\ [QueueNext]_queueVars => Inv'
    BY QueueAssumption, NextInv
  <1>3. Inv => InOrder
    BY QueueAssumption, InvInOrder
  <1> QED BY <1>1, <1>2, <1>3, PTL DEF QueueSpec
=============================================================================
