--------------------------- MODULE FlusherProofs ---------------------------
(***************************************************************************)
(* Proofs about Flusher, for any set of stores, keys and values and any    *)
(* number of operations and faults: type correctness, crash consistency,   *)
(* that no operation is lost, and that the flusher implements              *)
(* DurableLedger.                                                          *)
(***************************************************************************)
EXTENDS Flusher, TLAPS

(***************************************************************************)
(* The algebra of batches.                                                 *)
(***************************************************************************)

\* Replaying a batch on a store's contents gives contents.
LEMMA ReplayContent ==
    ASSUME NEW b \in Batch, NEW t \in Content
    PROVE  Replay(b, t) \in Content
  BY RecordAssumption DEF Replay, Batch, Content

\* Appending a batch to a batch gives a batch.
LEMMA ReplayBatch ==
    ASSUME NEW b \in Batch, NEW t \in Batch
    PROVE  Replay(b, t) \in Batch
  BY DEF Replay, Batch

\* The empty batch changes nothing.
LEMMA ReplayEmpty ==
    ASSUME NEW t \in Content
    PROVE  Replay(EmptyBatch, t) = t
  BY DEF Replay, EmptyBatch, Content

\* Replaying an appended batch is replaying the two one after the other.
LEMMA ReplayAppended ==
    ASSUME NEW a \in Batch, NEW b \in Batch, NEW t \in Content
    PROVE  Replay(Replay(a, b), t) = Replay(a, Replay(b, t))
  BY DEF Replay, Batch, Content

\* Replaying a batch a second time changes nothing.
LEMMA ReplayTwice ==
    ASSUME NEW b \in Batch, NEW t \in Content
    PROVE  Replay(b, Replay(b, t)) = Replay(b, t)
  BY DEF Replay, Batch, Content

\* The constants used by the actions are batches and contents.
LEMMA Constants ==
    /\ EmptyBatch \in Batch
    /\ EmptyContent \in Content
    /\ \A k \in Key, v \in Value \cup {None} : Single(k, v) \in Batch
  BY DEF EmptyBatch, EmptyContent, Single, Batch, Content
-----------------------------------------------------------------------------
(***************************************************************************)
(* The inductive invariant.                                                *)
(***************************************************************************)

\* What the batches of store s must add up to: the ledger, with the operation
\* in progress if it has reached s.
Target(s) == IF opPc \in {"idle", "flush"} \/ s \in opTodo THEN content
             ELSE Replay(op, content)

FlushPcs == {"prepare", "writeLog", "writeRecords", "syncLog", "cancel", "commit",
             "redo", "clean"}

\* Who may be where: an operation runs under a started flusher only, a dead one
\* leaves it aborted, and a chain flush belongs to an operation that waits for it.
Control ==
    /\ opPc \in {"write", "flush"} => status = "start"
    /\ opPc \in {"aborting", "dead"} <=> status = "aborted"
    /\ pc \in FlushPcs /\ flushBy = "chain" => opPc = "flush"
    /\ pc \in {"down", "recover"} => opPc = "idle"

\* The record that writeRedoLog writes for batch b.
Record(b) == IF b = EmptyBatch THEN NoBatch ELSE b

\* The stage of the flush, for one store.
Stage(s) ==
    /\ pc \in {"writeLog", "writeRecords", "syncLog", "cancel", "commit"}
         => flushingBatch[s] # NoBatch
    /\ pc \in {"redo", "clean", "down", "recover"} => flushingBatch[s] = NoBatch
    /\ pc = "writeLog" => s \in todo
    /\ pc = "writeRecords" /\ s \notin todo => redoLog[s] = Record(flushingBatch[s])
    /\ pc \in {"syncLog", "cancel", "commit"} => redoLog[s] = Record(flushingBatch[s])
    /\ pc \notin {"down", "recover", "commit", "redo"} => disk[s] = durable
    /\ pc = "commit" /\ s \notin todo /\ ~commitErr => disk[s] = durable
    /\ pc \in {"redo", "recover"} /\ s \notin todo => disk[s] = durable
    /\ pc \in {"redo", "recover"} /\ s \in todo => redoLog[s] # NoBatch

Log ==
    /\ pc = "writeRecords" => ~startCommitFlag
    /\ pc \in {"syncLog", "cancel", "commit", "redo", "recover"} => startCommitFlag
    /\ pc \in {"syncLog", "cancel", "commit"} => logged = prepared
    /\ pc \in {"commit", "redo", "recover", "down"} => logged = durable

\* What the batches of one store contain.
Collected(s) ==
    /\ Replay(snapshotBatch[s], IF flushingBatch[s] = NoBatch THEN durable ELSE prepared)
         = Target(s)
    /\ flushingBatch[s] # NoBatch => Replay(flushingBatch[s], disk[s]) = prepared
    /\ startCommitFlag /\ flushingBatch[s] = NoBatch
         => Replay(snapshotBatch[s], logged) = Target(s)
    /\ startCommitFlag /\ flushingBatch[s] # NoBatch
         => Replay(flushingBatch[s], logged) = prepared

IInv ==
    /\ TypeOK /\ Control /\ Log
    /\ \A s \in Stores : Stage(s) /\ Collected(s)
    /\ CrashConsistent
-----------------------------------------------------------------------------
(***************************************************************************)
(* Type correctness.                                                       *)
(***************************************************************************)

\* The fault counter stays a number.
LEMMA FaultType ==
    ASSUME NEW kind, faults \in Nat, Fault(kind)
    PROVE  faults' \in Nat
  BY DEF Fault

\* The end of the process leaves well-typed variables.
LEMMA ProcessEndsType ==
    ASSUME TypeOK, ProcessEnds, faults' \in Nat
    PROVE  TypeOK'
  BY Constants, Zenon DEF ProcessEnds, TypeOK, logVars

\* Truncating the redo log keeps its type.
LEMMA CleanType ==
    ASSUME TypeOK, CleanRedoLog
    PROVE  /\ redoLog' \in [Stores -> Batch \cup {NoBatch}]
           /\ startCommitFlag' \in BOOLEAN
           /\ faults' \in Nat
  BY FaultType, Zenon DEF CleanRedoLog, NoLog, logVars, TypeOK

\* Steps of a chain operation keep the types.
LEMMA ChainStepType ==
    ASSUME TypeOK, ChainStep
    PROVE  TypeOK'
  <1>1. ASSUME NEW k \in Key, NEW v \in Value \cup {None}, BeginOp(k, v)
        PROVE  TypeOK'
    BY <1>1, Constants
       DEF BeginOp, TypeOK, storeVars, logVars, flushVars, lifeVars, histVars
  <1>2. ASSUME NEW s \in Stores, WriteStore(s)
        PROVE  TypeOK'
    <2>1. Replay(op, snapshotBatch[s]) \in Batch
      BY <1>2, ReplayBatch DEF TypeOK
    <2>2. snapshotBatch' \in [Stores -> Batch]
      BY <1>2, <2>1 DEF WriteStore, TypeOK
    <2> QED
      BY <1>2, <2>2
         DEF WriteStore, TypeOK, logVars, flushVars, lifeVars, boundVars, histVars
  <1>3. CASE EndOp
    <2>1. content' \in Content
      BY <1>3, ReplayContent DEF EndOp, TypeOK
    <2> QED
      BY <1>3, <2>1 DEF EndOp, TypeOK, storeVars, logVars, flushVars, lifeVars, boundVars
  <1>4. CASE PanicOp
    BY <1>4, FaultType DEF PanicOp, TypeOK, storeVars, logVars, flushVars, histVars
  <1>5. CASE AbortDone
    BY <1>5
       DEF AbortDone, TypeOK, storeVars, logVars, flushVars, lifeVars, boundVars, histVars
  <1> QED BY <1>1, <1>2, <1>3, <1>4, <1>5 DEF ChainStep

\* Steps of the flush loop and of its life cycle keep the types.
LEMMA LifeStepType ==
    ASSUME TypeOK, LoopStep \/ Start \/ Stop
    PROVE  TypeOK'
  BY DEF LoopStep, LoopFlush, LoopAborted, Start, Stop, TypeOK, storeVars, logVars,
         flushVars, opVars, boundVars, histVars

\* Steps of a flush keep the types.
LEMMA FlushStepType ==
    ASSUME IInv, FlushStep
    PROVE  TypeOK'
  <1>0. TypeOK
    BY DEF IInv
  <1> USE <1>0 DEF storeVars, logVars, flushVars, lifeVars, opVars, boundVars, histVars
  <1>1. CASE ChainFlush
    BY <1>1 DEF ChainFlush, TypeOK
  <1>3. CASE Prepare
    BY <1>3, Constants DEF Prepare, TypeOK
  <1>4. CASE PrepareRepeatedly
    BY <1>4, ProcessEndsType DEF PrepareRepeatedly, TypeOK
  <1>5. CASE TruncateLog
    BY <1>5, Zenon DEF TruncateLog, NoLog, TypeOK
  <1>6. CASE WriteFlag
    BY <1>6 DEF WriteFlag, TypeOK
  <1>7. CASE WriteFails
    BY <1>7, FaultType DEF WriteFails, FlushReturns, TypeOK
  <1>8. ASSUME NEW s \in Stores, WriteRecord(s)
        PROVE  TypeOK'
    BY <1>8 DEF WriteRecord, TypeOK
  <1>9. CASE SyncRedoLog
    BY <1>9, Zenon DEF SyncRedoLog, TypeOK
  <1>10. CASE SyncFails
    BY <1>10, FaultType DEF SyncFails, TypeOK
  <1>11. CASE CancelPrepare
    <2>1. ASSUME NEW s \in Stores
          PROVE  Replay(snapshotBatch[s], flushingBatch[s]) \in Batch
      <3>1. flushingBatch[s] \in Batch
        BY <1>11 DEF CancelPrepare, IInv, Stage, TypeOK
      <3> QED BY <3>1, ReplayBatch DEF TypeOK
    <2> QED BY <1>11, <2>1 DEF CancelPrepare, TypeOK
  <1>12. ASSUME NEW s \in Stores, CommitStore(s)
         PROVE  TypeOK'
    <2>1. flushingBatch[s] \in Batch
      BY <1>12 DEF CommitStore, IInv, Stage, TypeOK
    <2>2. Replay(flushingBatch[s], disk[s]) \in Content
      BY <2>1, ReplayContent DEF TypeOK
    <2> QED BY <1>12, <2>2 DEF CommitStore, TypeOK
  <1>13. ASSUME NEW s \in Stores, CommitFails(s)
         PROVE  TypeOK'
    BY <1>13, FaultType DEF CommitFails, TypeOK
  <1>14. CASE AfterCommit
    BY <1>14 DEF AfterCommit, TypeOK
  <1>15. CASE Clean
    BY <1>15, CleanType DEF Clean, FlushReturns, TypeOK
  <1> QED
    BY <1>1, <1>3, <1>4, <1>5, <1>6, <1>7, <1>8, <1>9, <1>10, <1>11, <1>12, <1>13,
       <1>14, <1>15 DEF FlushStep

\* Steps of a recovery, or of a redo after a failed commit, keep the types.
LEMMA RedoStepType ==
    ASSUME IInv, RedoStep \/ Recover
    PROVE  TypeOK'
  <1>0. TypeOK
    BY DEF IInv
  <1> USE <1>0 DEF storeVars, logVars, flushVars, lifeVars, opVars, boundVars, histVars
  <1>1. ASSUME NEW s \in Stores, RedoStore(s)
        PROVE  TypeOK'
    <2>1. redoLog[s] \in Batch
      BY <1>1 DEF RedoStore, IInv, Stage, TypeOK
    <2>2. Replay(redoLog[s], disk[s]) \in Content
      BY <2>1, ReplayContent DEF TypeOK
    <2> QED BY <1>1, <2>2 DEF RedoStore, TypeOK
  <1>2. CASE RedoFails
    BY <1>2, ProcessEndsType, FaultType DEF RedoFails, TypeOK
  <1>3. CASE RedoDone
    BY <1>3, CleanType DEF RedoDone, TypeOK
  <1>4. CASE Recover
    BY <1>4, CleanType DEF Recover, TypeOK
  <1> QED BY <1>1, <1>2, <1>3, <1>4 DEF RedoStep

\* Every step keeps the types.
LEMMA NextType ==
    ASSUME IInv, [Next]_vars
    PROVE  TypeOK'
  <1>0. TypeOK
    BY DEF IInv
  <1>1. CASE ChainStep \/ LoopStep \/ Start \/ Stop
    BY <1>0, <1>1, ChainStepType, LifeStepType
  <1>2. CASE FlushStep \/ RedoStep \/ Recover
    BY <1>2, FlushStepType, RedoStepType
  <1>3. CASE Crash \/ PanicEnds
    BY <1>0, <1>3, ProcessEndsType, FaultType DEF Crash, PanicEnds, TypeOK
  <1>4. CASE UNCHANGED vars
    BY <1>0, <1>4 DEF vars, storeVars, logVars, flushVars, lifeVars, opVars, boundVars,
                      histVars, TypeOK
  <1> QED BY <1>1, <1>2, <1>3, <1>4 DEF Next
-----------------------------------------------------------------------------
(***************************************************************************)
(* The invariant is inductive: the control part.                           *)
(***************************************************************************)

\* Every step keeps Control.
LEMMA NextControl ==
    ASSUME IInv, [Next]_vars
    PROVE  Control'
  <1> USE DEF storeVars, logVars, flushVars, lifeVars, opVars, boundVars, histVars
  <1>0. TypeOK /\ Control
    BY DEF IInv
  <1>1. CASE ChainStep
    BY <1>0, <1>1, Zenon
       DEF ChainStep, BeginOp, WriteStore, EndOp, PanicOp, AbortDone, Control,
           Running, FlushPcs, TypeOK
  <1>2. CASE LoopStep \/ Start \/ Stop
    BY <1>0, <1>2, Zenon
       DEF LoopStep, LoopFlush, LoopAborted, Start, Stop, Control, Running,
           FlushPcs, TypeOK
  <1>3. CASE FlushStep
    <2>1. CASE WriteFails \/ Clean
      BY <1>0, <2>1, Zenon DEF WriteFails, Clean, FlushReturns, Control, FlushPcs,
                               TypeOK
    <2>2. CASE PrepareRepeatedly
      BY <1>0, <2>2, Zenon DEF PrepareRepeatedly, ProcessEnds, Control, FlushPcs
    <2>3. CASE ChainFlush \/ Prepare \/ TruncateLog \/ WriteFlag \/ SyncRedoLog \/ SyncFails
               \/ CancelPrepare \/ AfterCommit
      BY <1>0, <2>3, Zenon
         DEF ChainFlush, Prepare, TruncateLog, WriteFlag, SyncRedoLog, SyncFails,
             CancelPrepare, AfterCommit, Control, FlushPcs
    <2>4. ASSUME NEW s \in Stores, WriteRecord(s) \/ CommitStore(s) \/ CommitFails(s)
          PROVE  Control'
      BY <1>0, <2>4, Zenon DEF WriteRecord, CommitStore, CommitFails, Control
    <2> QED BY <1>3, <2>1, <2>2, <2>3, <2>4 DEF FlushStep
  <1>4. CASE RedoStep \/ Recover
    BY <1>0, <1>4, Zenon DEF RedoStep, RedoStore, RedoFails, RedoDone, Recover, ProcessEnds,
                             Control, FlushPcs
  <1>5. CASE Crash \/ PanicEnds
    BY <1>0, <1>5, Zenon DEF Crash, PanicEnds, ProcessEnds, Control, FlushPcs
  <1>6. CASE UNCHANGED vars
    BY <1>0, <1>6, Zenon DEF vars, Control
  <1> QED BY <1>1, <1>2, <1>3, <1>4, <1>5, <1>6, Zenon DEF Next

\* Every step keeps Log.
LEMMA NextLog ==
    ASSUME IInv, [Next]_vars
    PROVE  Log'
  <1> USE DEF storeVars, logVars, flushVars, lifeVars, opVars, boundVars, histVars
  <1>0. TypeOK /\ Log
    BY DEF IInv
  <1>1. CASE ChainStep \/ LoopStep \/ Start \/ Stop
    BY <1>0, <1>1, SMTT(30) DEF ChainStep, BeginOp, WriteStore, EndOp, PanicOp, AbortDone,
                                LoopStep, LoopFlush, LoopAborted, Start, Stop, Log
  <1>2. CASE FlushStep
    <2>1. CASE WriteFails \/ Clean
      BY <1>0, <2>1, Zenon DEF WriteFails, Clean, FlushReturns, Log
    <2>2. CASE PrepareRepeatedly
      BY <1>0, <2>2, Zenon DEF PrepareRepeatedly, ProcessEnds, Log
    <2>3. CASE ChainFlush \/ Prepare \/ TruncateLog \/ WriteFlag \/ SyncRedoLog \/ SyncFails
               \/ CancelPrepare \/ AfterCommit
      BY <1>0, <2>3, Zenon
         DEF ChainFlush, Prepare, TruncateLog, WriteFlag, SyncRedoLog, SyncFails,
             CancelPrepare, AfterCommit, Log
    <2>4. ASSUME NEW s \in Stores, WriteRecord(s) \/ CommitStore(s) \/ CommitFails(s)
          PROVE  Log'
      BY <1>0, <2>4, SMTT(30) DEF WriteRecord, CommitStore, CommitFails, Log
    <2> QED BY <1>2, <2>1, <2>2, <2>3, <2>4 DEF FlushStep
  <1>3. CASE RedoStep \/ Recover
    BY <1>0, <1>3, Zenon
       DEF RedoStep, RedoStore, RedoFails, RedoDone, Recover, ProcessEnds, Log
  <1>4. CASE Crash \/ PanicEnds
    BY <1>0, <1>4, Zenon DEF Crash, PanicEnds, ProcessEnds, Log
  <1>5. CASE UNCHANGED vars
    BY <1>0, <1>5, Zenon DEF vars, Log
  <1> QED BY <1>1, <1>2, <1>3, <1>4, <1>5, Zenon DEF Next
-----------------------------------------------------------------------------
(***************************************************************************)
(* The invariant is inductive: the batches of one store.                   *)
(***************************************************************************)

Consistent(s) == Recovered(s) = IF startCommitFlag THEN logged ELSE durable

StoreInv(s) == Stage(s) /\ Collected(s) /\ Consistent(s)

Facts(s) ==
    /\ StoreInv(s)
    /\ disk[s] \in Content /\ snapshotBatch[s] \in Batch
    /\ flushingBatch[s] \in Batch \cup {NoBatch}
    /\ redoLog[s] \in Batch \cup {NoBatch}
    /\ NoBatch \notin Batch
    /\ op \in Batch /\ content \in Content /\ prepared \in Content
    /\ logged \in Content /\ durable \in Content

\* What the invariant says of one store, with the types of its variables.
LEMMA StoreFacts ==
    ASSUME IInv, NEW s \in Stores
    PROVE  Facts(s)
  BY FlusherAssumption DEF Facts, IInv, TypeOK, StoreInv, Consistent, CrashConsistent

\* Recover makes the same of a store whose database and log do not change.
LEMMA SameRecovered ==
    ASSUME NEW s \in Stores, UNCHANGED <<disk, redoLog, startCommitFlag>>
    PROVE  Recovered(s)' = Recovered(s)
  BY DEF Recovered

\* A step that leaves the stores, the log and the checkpoints alone has to keep
\* only the stage of the flush.
LEMMA SameStore ==
    ASSUME NEW s \in Stores, StoreInv(s), Stage(s)', Target(s)' = Target(s),
           UNCHANGED <<disk, snapshotBatch, flushingBatch, redoLog, startCommitFlag,
                       prepared, logged, durable>>
    PROVE  StoreInv(s)'
  <1>1. Consistent(s)'
    BY SameRecovered DEF StoreInv, Consistent
  <1>2. Collected(s)'
    BY DEF StoreInv, Collected
  <1> QED BY <1>1, <1>2, Zenon DEF StoreInv

\* Chain operations, the loop and its life cycle do not touch the disk.
LEMMA ChainStepStore ==
    ASSUME IInv, ChainStep \/ LoopStep \/ Start \/ Stop, NEW s \in Stores
    PROVE  StoreInv(s)'
  <1>f. Facts(s)
    BY StoreFacts, Zenon
  <1> USE <1>f DEF Facts, storeVars, logVars, flushVars, lifeVars, opVars, boundVars,
                   histVars
  <1>1. ASSUME NEW k \in Key, NEW v \in Value \cup {None}, BeginOp(k, v)
        PROVE  StoreInv(s)'
    <2>1. Target(s)' = Target(s)
      BY <1>1, Zenon DEF BeginOp, Target
    <2>2. Stage(s)'
      BY <1>1, Zenon DEF BeginOp, StoreInv, Stage
    <2> QED BY <1>1, <2>1, <2>2, SameStore, Zenon DEF BeginOp
  <1>2. ASSUME NEW t \in Stores, WriteStore(t)
        PROVE  StoreInv(s)'
    <2>1. CASE t # s
      BY <1>2, <2>1, Zenon
         DEF WriteStore, StoreInv, Stage, Collected, Consistent, Recovered, Target,
             IInv, TypeOK
    <2>2. CASE t = s
      <3>1. /\ snapshotBatch'[s] = Replay(op, snapshotBatch[s])
            /\ Target(s) = content /\ Target(s)' = Replay(op, content)
        BY <1>2, <2>2, Zenon DEF WriteStore, Target, IInv, TypeOK
      <3>2. \A c \in Content :
               Replay(snapshotBatch'[s], c) = Replay(op, Replay(snapshotBatch[s], c))
        BY <3>1, ReplayAppended
      <3>3. Collected(s)'
        BY <1>2, <3>1, <3>2, Zenon DEF WriteStore, StoreInv, Collected
      <3>4. Stage(s)' /\ Consistent(s)'
        BY <1>2, SameRecovered, Zenon DEF WriteStore, StoreInv, Stage, Consistent
      <3> QED BY <3>3, <3>4, Zenon DEF StoreInv
    <2> QED BY <2>1, <2>2, Zenon
  <1>3. CASE EndOp
    <2>1. Target(s)' = Target(s)
      BY <1>3, Zenon DEF EndOp, Target
    <2>2. Stage(s)'
      BY <1>3, Zenon DEF EndOp, StoreInv, Stage
    <2> QED BY <1>3, <2>1, <2>2, SameStore, Zenon DEF EndOp
  <1>4. CASE PanicOp \/ AbortDone
    <2>1. Target(s)' = Target(s)
      BY <1>4, Zenon DEF PanicOp, AbortDone, Target
    <2>2. Stage(s)'
      BY <1>4, Zenon DEF PanicOp, AbortDone, StoreInv, Stage
    <2> QED BY <1>4, <2>1, <2>2, SameStore, Zenon DEF PanicOp, AbortDone
  <1>5. CASE LoopStep \/ Start \/ Stop
    <2>1. Target(s)' = Target(s)
      BY <1>5, Zenon DEF LoopStep, LoopFlush, LoopAborted, Start, Stop, Target
    <2>2. Stage(s)'
      BY <1>5, Zenon DEF LoopStep, LoopFlush, LoopAborted, Start, Stop, StoreInv, Stage
    <2> QED BY <1>5, <2>1, <2>2, SameStore, Zenon
               DEF LoopStep, LoopFlush, LoopAborted, Start, Stop
  <1> QED BY <1>1, <1>2, <1>3, <1>4, <1>5, Zenon DEF ChainStep

\* The end of the process leaves of a store what is on disk and in the log.
LEMMA ProcessEndsStore ==
    ASSUME IInv, ProcessEnds, NEW s \in Stores
    PROVE  StoreInv(s)'
  <1>1. Recovered(s)' = Recovered(s)
    BY Zenon DEF ProcessEnds, Recovered, logVars
  <1>2. /\ flushingBatch'[s] = NoBatch /\ snapshotBatch'[s] = EmptyBatch
        /\ durable' \in Content /\ logged' = durable' /\ content' = durable'
    BY StoreFacts, Zenon DEF Facts, ProcessEnds
  <1>3. Target(s)' = durable'
    BY <1>2, Zenon DEF ProcessEnds, Target
  <1>4. Collected(s)'
    BY <1>2, <1>3, ReplayEmpty, Zenon DEF Collected
  <1>5. Consistent(s)'
    BY <1>1, StoreFacts, Zenon DEF Facts, ProcessEnds, StoreInv, Consistent, logVars
  <1>6. Stage(s)'
    BY <1>2, Zenon DEF ProcessEnds, Stage
  <1> QED BY <1>4, <1>5, <1>6, Zenon DEF StoreInv

\* Taking, cancelling and releasing the batches of every store.
LEMMA PrepareStore ==
    ASSUME IInv, Prepare \/ CancelPrepare \/ AfterCommit, NEW s \in Stores
    PROVE  StoreInv(s)'
  <1>f. Facts(s)
    BY StoreFacts, Zenon
  <1> USE <1>f DEF Facts, storeVars, logVars, flushVars, lifeVars, opVars, boundVars,
                   histVars
  <1>1. CASE Prepare
    <2>1. /\ flushingBatch'[s] = snapshotBatch[s] /\ snapshotBatch'[s] = EmptyBatch
          /\ flushingBatch'[s] # NoBatch /\ flushingBatch[s] = NoBatch
          /\ disk[s] = durable
      BY <1>1, Zenon DEF Prepare, StoreInv, Stage
    <2>2. Target(s) = content /\ Target(s)' = content
      BY <1>1, Zenon DEF Prepare, IInv, Control, TypeOK, RLocked, Target
    <2>3. Collected(s)'
      BY <1>1, <2>1, <2>2, ReplayEmpty, Zenon DEF Prepare, StoreInv, Collected
    <2>4. Stage(s)'
      BY <1>1, <2>1, Zenon DEF Prepare, Stage
    <2>5. Consistent(s)'
      BY <1>1, SameRecovered, Zenon DEF Prepare, StoreInv, Consistent
    <2> QED BY <2>3, <2>4, <2>5, Zenon DEF StoreInv
  <1>2. CASE CancelPrepare
    <2>1. /\ flushingBatch[s] \in Batch /\ flushingBatch'[s] = NoBatch
          /\ snapshotBatch'[s] = Replay(snapshotBatch[s], flushingBatch[s])
          /\ disk[s] = durable /\ startCommitFlag
      BY <1>2, Zenon DEF CancelPrepare, StoreInv, Stage, IInv, Log
    <2>2. \A c \in Content : Replay(snapshotBatch'[s], c)
                               = Replay(snapshotBatch[s], Replay(flushingBatch[s], c))
      BY <2>1, ReplayAppended
    <2>3. Target(s)' = Target(s)
      BY <1>2, Zenon DEF CancelPrepare, Target
    <2>4. Collected(s)'
      BY <1>2, <2>1, <2>2, <2>3, Zenon DEF CancelPrepare, StoreInv, Collected
    <2>5. Stage(s)'
      BY <1>2, <2>1, Zenon DEF CancelPrepare, Stage
    <2>6. Consistent(s)'
      BY <1>2, SameRecovered, Zenon DEF CancelPrepare, StoreInv, Consistent
    <2> QED BY <2>4, <2>5, <2>6, Zenon DEF StoreInv
  <1>3. CASE AfterCommit
    <2>1. /\ flushingBatch[s] # NoBatch /\ flushingBatch'[s] = NoBatch
          /\ startCommitFlag /\ logged = durable /\ prepared = durable
      BY <1>3, Zenon DEF AfterCommit, StoreInv, Stage, IInv, Log
    <2>2. Target(s)' = Target(s)
      BY <1>3, Zenon DEF AfterCommit, Target
    <2>3. Collected(s)'
      BY <1>3, <2>1, <2>2, Zenon DEF AfterCommit, StoreInv, Collected
    <2>4. Stage(s)'
      BY <1>3, <2>1, Zenon DEF AfterCommit, StoreInv, Stage, Consistent, Recovered
    <2>5. Consistent(s)'
      BY <1>3, Zenon DEF AfterCommit, StoreInv, Consistent, Recovered
    <2> QED BY <2>3, <2>4, <2>5, Zenon DEF StoreInv
  <1> QED BY <1>1, <1>2, <1>3, Zenon

\* Writing and truncating the redo log.
LEMMA LogStepStore ==
    ASSUME IInv, NEW s \in Stores,
           \/ TruncateLog \/ WriteFlag \/ SyncRedoLog \/ SyncFails
           \/ \E t \in Stores : WriteRecord(t)
    PROVE  StoreInv(s)'
  <1>f. Facts(s)
    BY StoreFacts, Zenon
  <1> USE <1>f DEF Facts, storeVars, logVars, flushVars, lifeVars, opVars, boundVars,
                   histVars
  <1>0. Target(s)' = Target(s)
    BY Zenon DEF TruncateLog, WriteFlag, SyncRedoLog, SyncFails, WriteRecord, Target
  <1>1. CASE TruncateLog
    <2>1. /\ flushingBatch[s] # NoBatch /\ disk[s] = durable /\ s \in todo
          /\ ~startCommitFlag'
      BY <1>1, Zenon DEF TruncateLog, StoreInv, Stage
    <2>2. Stage(s)'
      BY <1>1, <2>1, Zenon DEF TruncateLog, Stage
    <2>3. Collected(s)'
      BY <1>0, <1>1, <2>1, Zenon DEF TruncateLog, StoreInv, Collected
    <2>4. Consistent(s)'
      BY <1>1, <2>1, Zenon DEF TruncateLog, Consistent, Recovered
    <2> QED BY <2>2, <2>3, <2>4, Zenon DEF StoreInv
  <1>2. CASE WriteFlag
    <2>1. /\ flushingBatch[s] \in Batch /\ ~startCommitFlag /\ disk[s] = durable
          /\ redoLog[s] = Record(flushingBatch[s])
          /\ Replay(flushingBatch[s], disk[s]) = prepared
      BY <1>2, Zenon DEF WriteFlag, StoreInv, Stage, Collected, IInv, Log
    <2>2. Replay(flushingBatch[s], prepared) = prepared
      BY <2>1, ReplayTwice, Zenon
    <2>3. Consistent(s)'
      BY <1>2, <2>1, ReplayEmpty, Zenon DEF WriteFlag, Consistent, Recovered, Record
    <2>4. Collected(s)'
      BY <1>0, <1>2, <2>1, <2>2, Zenon DEF WriteFlag, StoreInv, Collected
    <2>5. Stage(s)'
      BY <1>2, <2>1, Zenon DEF WriteFlag, Stage, StoreInv
    <2> QED BY <2>3, <2>4, <2>5, Zenon DEF StoreInv
  <1>3. CASE SyncRedoLog
    <2>1. startCommitFlag /\ flushingBatch[s] # NoBatch
      BY <1>3, Zenon DEF SyncRedoLog, IInv, Log, StoreInv, Stage
    <2> QED BY <1>0, <1>3, <2>1, Zenon
               DEF SyncRedoLog, StoreInv, Stage, Collected, Consistent, Recovered
  <1>4. CASE SyncFails
    BY <1>0, <1>4, Zenon DEF SyncFails, StoreInv, Stage, Collected, Consistent, Recovered
  <1>5. ASSUME NEW t \in Stores, WriteRecord(t)
        PROVE  StoreInv(s)'
    <2>1. ~startCommitFlag
      BY <1>5, Zenon DEF WriteRecord, IInv, Log
    <2>2. Stage(s)'
      BY <1>5 DEF WriteRecord, StoreInv, Stage, Record, IInv, TypeOK
    <2> QED BY <1>0, <1>5, <2>1, <2>2, Zenon
               DEF WriteRecord, StoreInv, Collected, Consistent, Recovered
  <1> QED BY <1>1, <1>2, <1>3, <1>4, <1>5, Zenon

\* Writing the databases: Commit, or PatchRedoLog of a flagged log.
LEMMA DiskStepStore ==
    ASSUME IInv, NEW s \in Stores,
           \E t \in Stores : CommitStore(t) \/ CommitFails(t) \/ RedoStore(t)
    PROVE  StoreInv(s)'
  <1>f. Facts(s)
    BY StoreFacts, Zenon
  <1> USE <1>f DEF Facts, storeVars, logVars, flushVars, lifeVars, opVars, boundVars,
                   histVars
  <1>0. Target(s)' = Target(s)
    BY Zenon DEF CommitStore, CommitFails, RedoStore, Target
  <1>1. ASSUME NEW t \in Stores, CommitStore(t), t # s
        PROVE  StoreInv(s)'
    BY <1>0, <1>1, Zenon
       DEF CommitStore, StoreInv, Stage, Collected, Consistent, Recovered, IInv,
           TypeOK
  <1>2. CASE CommitStore(s)
    <2>1. /\ flushingBatch[s] \in Batch /\ startCommitFlag
          /\ redoLog[s] = Record(flushingBatch[s])
          /\ logged = durable /\ prepared = durable
          /\ Replay(flushingBatch[s], disk[s]) = prepared
      BY <1>2, Zenon DEF CommitStore, IInv, Log, StoreInv, Stage, Collected
    <2>2. disk'[s] = durable
      BY <1>2, <2>1, Zenon DEF CommitStore, IInv, TypeOK
    <2>3. Replay(flushingBatch[s], durable) = durable
      BY <2>1, ReplayTwice
    <2>4. Consistent(s)'
      BY <1>2, <2>1, <2>2, <2>3, Zenon DEF CommitStore, Consistent, Recovered, Record
    <2>5. Collected(s)'
      BY <1>0, <1>2, <2>1, <2>2, <2>3, Zenon DEF CommitStore, StoreInv, Collected
    <2>6. Stage(s)'
      BY <1>2, <2>1, <2>2, Zenon DEF CommitStore, StoreInv, Stage
    <2> QED BY <2>4, <2>5, <2>6, Zenon DEF StoreInv
  <1>3. ASSUME NEW t \in Stores, CommitFails(t)
        PROVE  StoreInv(s)'
    BY <1>0, <1>3, Zenon DEF CommitFails, StoreInv, Stage, Collected, Consistent, Recovered
  <1>4. ASSUME NEW t \in Stores, RedoStore(t), t # s
        PROVE  StoreInv(s)'
    BY <1>0, <1>4, Zenon
       DEF RedoStore, StoreInv, Stage, Collected, Consistent, Recovered, IInv,
           TypeOK
  <1>5. CASE RedoStore(s)
    <2>1. /\ redoLog[s] \in Batch /\ startCommitFlag /\ logged = durable
          /\ flushingBatch[s] = NoBatch
          /\ Replay(redoLog[s], disk[s]) = durable
      BY <1>5, Zenon DEF RedoStore, IInv, Log, StoreInv, Stage, Consistent, Recovered
    <2>2. disk'[s] = durable
      BY <1>5, <2>1, Zenon DEF RedoStore, IInv, TypeOK
    <2>3. Replay(redoLog[s], durable) = durable
      BY <2>1, ReplayTwice, Zenon
    <2>4. Consistent(s)'
      BY <1>5, <2>1, <2>2, <2>3, Zenon DEF RedoStore, Consistent, Recovered
    <2>5. Collected(s)'
      BY <1>0, <1>5, <2>1, Zenon DEF RedoStore, StoreInv, Collected
    <2>6. Stage(s)'
      BY <1>5, <2>1, <2>2, Zenon DEF RedoStore, StoreInv, Stage
    <2> QED BY <2>4, <2>5, <2>6, Zenon DEF StoreInv
  <1> QED BY <1>1, <1>2, <1>3, <1>4, <1>5, Zenon

\* Starting and ending a flush or a recovery.
LEMMA BoundaryStore ==
    ASSUME IInv, NEW s \in Stores,
           \/ ChainFlush \/ WriteFails \/ Clean \/ RedoDone \/ Recover
    PROVE  StoreInv(s)'
  <1>f. Facts(s)
    BY StoreFacts, Zenon
  <1> USE <1>f DEF Facts, storeVars, logVars, flushVars, lifeVars, opVars, boundVars,
                   histVars
  <1>0. Target(s)' = Target(s)
    BY Zenon DEF ChainFlush, WriteFails, Clean, RedoDone, Recover, FlushReturns,
                 Target, IInv, Control, FlushPcs
  <1>1. CASE ChainFlush \/ WriteFails
    <2>1. Stage(s)'
      BY <1>1, Zenon DEF ChainFlush, WriteFails, FlushReturns, StoreInv, Stage
    <2> QED BY <1>0, <1>1, <2>1, SameStore, Zenon DEF ChainFlush, WriteFails
  <1>2. CASE Clean \/ RedoDone
    <2>1. disk[s] = durable /\ flushingBatch[s] = NoBatch
      BY <1>2, Zenon DEF Clean, RedoDone, StoreInv, Stage
    <2>2. Stage(s)'
      BY <1>2, <2>1, Zenon DEF Clean, RedoDone, FlushReturns, Stage
    <2>3. Collected(s)'
      <3>1. CASE startCommitFlag' = FALSE
        BY <1>0, <1>2, <2>1, <3>1, Zenon DEF Clean, RedoDone, StoreInv, Collected
      <3>2. CASE startCommitFlag' = startCommitFlag
        BY <1>0, <1>2, <2>1, <3>2, Zenon DEF Clean, RedoDone, StoreInv, Collected
      <3> QED BY <1>2, <3>1, <3>2, Zenon DEF Clean, RedoDone, CleanRedoLog
    <2>4. Consistent(s)'
      <3>1. CASE redoLog' = NoLog /\ startCommitFlag' = FALSE
        BY <1>2, <2>1, <3>1, Zenon DEF Clean, RedoDone, Consistent, Recovered
      <3>2. CASE UNCHANGED logVars
        BY <1>2, <3>2, SameRecovered, Zenon DEF Clean, RedoDone, StoreInv, Consistent
      <3> QED BY <1>2, <3>1, <3>2, Zenon DEF Clean, RedoDone, CleanRedoLog
    <2> QED BY <2>2, <2>3, <2>4, Zenon DEF StoreInv
  <1>3. CASE Recover
    <2>1. flushingBatch[s] = NoBatch /\ logged = durable /\ Recovered(s) = durable
      BY <1>3, Zenon DEF Recover, StoreInv, Stage, Consistent, IInv, Log
    <2>2. ~startCommitFlag \/ redoLog[s] = NoBatch => disk[s] = durable
      BY <2>1, Zenon DEF Recovered
    <2>3. redoLog = NoLog => redoLog[s] = NoBatch
      BY Zenon DEF NoLog
    <2>4. Stage(s)'
      BY <1>3, <2>1, <2>2, <2>3, Zenon DEF Recover, Stage
    <2>5. Collected(s)'
      BY <1>0, <1>3, <2>1, Zenon DEF Recover, CleanRedoLog, StoreInv, Collected
    <2>6. Consistent(s)'
      <3>1. CASE redoLog' = NoLog /\ startCommitFlag' = FALSE /\ disk[s] = durable
        BY <1>3, <3>1, Zenon DEF Recover, Consistent, Recovered
      <3>2. CASE UNCHANGED logVars
        BY <1>3, <3>2, SameRecovered, Zenon DEF Recover, StoreInv, Consistent
      <3> QED BY <1>3, <2>2, <2>3, <3>1, <3>2, Zenon DEF Recover, CleanRedoLog
    <2> QED BY <2>4, <2>5, <2>6, Zenon DEF StoreInv
  <1> QED BY <1>1, <1>2, <1>3, Zenon

\* Every step keeps the invariant of every store.
LEMMA NextStore ==
    ASSUME IInv, [Next]_vars, NEW s \in Stores
    PROVE  StoreInv(s)'
  <1>1. CASE ChainStep \/ LoopStep \/ Start \/ Stop
    BY <1>1, ChainStepStore, Zenon
  <1>2. CASE FlushStep
    BY <1>2, PrepareStore, LogStepStore, DiskStepStore, BoundaryStore, ProcessEndsStore, Zenon
       DEF FlushStep, PrepareRepeatedly
  <1>3. CASE RedoStep \/ Recover
    BY <1>3, DiskStepStore, BoundaryStore, ProcessEndsStore DEF RedoStep, RedoFails
  <1>4. CASE Crash \/ PanicEnds
    BY <1>4, ProcessEndsStore DEF Crash, PanicEnds
  <1>5. CASE UNCHANGED vars
    BY <1>5, StoreFacts, Zenon
       DEF Facts, vars, storeVars, logVars, flushVars, opVars, histVars, StoreInv, Stage,
           Collected, Consistent, Recovered, Target
  <1> QED BY <1>1, <1>2, <1>3, <1>4, <1>5 DEF Next

\* The initial state satisfies the invariant.
LEMMA InitInv == Init => IInv
  <1> SUFFICES ASSUME Init PROVE IInv
    OBVIOUS
  <1>1. TypeOK
    BY Constants, Zenon DEF Init, TypeOK, NoLog
  <1>2. Control /\ Log /\ CrashConsistent
    BY DEF Init, Control, Log, CrashConsistent, Recovered, FlushPcs
  <1>3. ASSUME NEW s \in Stores
        PROVE  Stage(s) /\ Collected(s)
    BY Constants, ReplayEmpty DEF Init, Stage, Collected, Target
  <1> QED BY <1>1, <1>2, <1>3 DEF IInv

\* Every step preserves the invariant.
LEMMA NextInv == IInv /\ [Next]_vars => IInv'
  BY NextType, NextControl, NextLog, NextStore
     DEF IInv, StoreInv, Consistent, CrashConsistent
-----------------------------------------------------------------------------
(***************************************************************************)
(* The theorems.                                                           *)
(***************************************************************************)

\* The inductive invariant holds in every reachable state.
THEOREM Invariance == Spec => []IInv
  BY InitInv, NextInv, PTL DEF Spec

\* Every variable keeps its type.
THEOREM TypeCorrect == Spec => []TypeOK
  <1>1. IInv => TypeOK
    BY DEF IInv
  <1> QED BY <1>1, Invariance, PTL

\* Whenever the process ends, in a flush, in a recovery or in an operation,
\* Recover brings all the stores to one and the same checkpoint.
THEOREM CrashConsistency == Spec => []CrashConsistent
  <1>1. IInv => CrashConsistent
    BY DEF IInv
  <1> QED BY <1>1, Invariance, PTL

\* No complete operation falls out of the batches, the log and the databases.
THEOREM NothingIsLost == Spec => []NothingLost
  <1>1. IInv => NothingLost
    <2> SUFFICES ASSUME IInv, opPc \in {"idle", "flush"}, NEW s \in Stores
                 PROVE  Pipeline(s) = content
      BY DEF NothingLost
    <2>1. Target(s) = content
      BY DEF Target
    <2> QED BY <2>1, StoreFacts
               DEF Facts, Pipeline, StoreInv, Collected, Consistent, Recovered
  <1> QED BY <1>1, Invariance, PTL
-----------------------------------------------------------------------------
(***************************************************************************)
(* Stop saves all.  While nothing has failed, the last flush of the loop   *)
(* carries the ledger, as no operation starts any more, through its stages *)
(* to the disk, and leaves an empty redo log.                              *)
(***************************************************************************)
Stopping ==
    faults = 0 =>
        /\ pc \notin {"down", "recover", "cancel", "redo"} /\ ~commitErr
        /\ opPc \notin {"aborting", "dead"}
        /\ pc \in {"idle", "prepare"} => \A s \in Stores : flushingBatch[s] = NoBatch
        /\ pc = "idle" => ~startCommitFlag
        /\ pc \in FlushPcs /\ flushBy = "loop" => loop \in {"flushing", "final"}
        /\ status = "start" => loop \in {"ready", "flushing"}
        /\ status = "stop" /\ loop = "none" => pc = "idle" /\ durable = content
        /\ loop = "final" =>
              /\ status = "stop" /\ flushBy = "loop" /\ pc \in FlushPcs
              /\ pc \in {"writeLog", "writeRecords", "syncLog"} => prepared = content
              /\ pc \in {"commit", "clean"} => durable = content

\* A step that counts a fault breaks the premise.
LEMMA FaultCounts ==
    ASSUME TypeOK, NEW kind, Fault(kind)
    PROVE  faults' # 0
  BY DEF Fault, TypeOK

\* Every step preserves it.
LEMMA NextStopping ==
    ASSUME IInv, Stopping, [Next]_vars
    PROVE  Stopping'
  <1> SUFFICES ASSUME faults' = 0
               PROVE  Stopping'
    BY Zenon DEF Stopping
  <1>0. TypeOK /\ Control
    BY DEF IInv
  <1>f. \A kind : ~Fault(kind)
    BY <1>0, FaultCounts
  <1> USE <1>0, <1>f DEF storeVars, logVars, flushVars, lifeVars, opVars, boundVars, histVars
  <1>1. CASE ChainStep
    BY <1>1, Zenon DEF ChainStep, BeginOp, WriteStore, EndOp, PanicOp, AbortDone, Running,
                       Control, Stopping, FlushPcs, TypeOK
  <1>2. CASE LoopStep \/ Start \/ Stop
    BY <1>2, Zenon DEF LoopStep, LoopFlush, LoopAborted, Start, Stop, Running, Control, Stopping,
                       FlushPcs, TypeOK
  <1>3. CASE ChainFlush \/ Prepare \/ PrepareRepeatedly
    BY <1>3, Zenon DEF ChainFlush, Prepare, PrepareRepeatedly, Control, Stopping, FlushPcs
  <1>4. CASE TruncateLog \/ WriteFlag \/ WriteFails \/ SyncRedoLog \/ SyncFails \/ CancelPrepare
    BY <1>4, Zenon DEF TruncateLog, WriteFlag, WriteFails, SyncRedoLog, SyncFails, CancelPrepare,
                       Stopping, FlushPcs
  <1>5. CASE \E s \in Stores : WriteRecord(s) \/ CommitStore(s) \/ CommitFails(s)
    BY <1>5, Zenon DEF WriteRecord, CommitStore, CommitFails, Stopping, FlushPcs
  <1>6. CASE AfterCommit
    BY <1>6, Zenon DEF AfterCommit, Stopping, FlushPcs
  <1>7. CASE Clean
    <2>1. \A s \in Stores : flushingBatch[s] = NoBatch
      BY <1>7 DEF Clean, IInv, Stage
    <2> QED BY <1>7, <2>1, Zenon DEF Clean, CleanRedoLog, FlushReturns, Control, Stopping,
                                     FlushPcs, TypeOK
  <1>8. CASE RedoStep \/ Recover \/ Crash \/ PanicEnds
    BY <1>8, Zenon DEF RedoStep, RedoStore, RedoFails, RedoDone, Recover, CleanRedoLog, Crash,
                       PanicEnds, ProcessEnds, Stopping
  <1>9. CASE UNCHANGED vars
    BY <1>9, Zenon DEF vars, Stopping
  <1> QED BY <1>1, <1>2, <1>3, <1>4, <1>5, <1>6, <1>7, <1>8, <1>9 DEF Next, FlushStep

\* Once the loop has ended after a Stop, and nothing failed, a restart finds every
\* operation of the ledger in every store.
THEOREM StopSaves == Spec => []StopSavesAll
  <1>1. Init => Stopping
    BY DEF Init, Stopping, FlushPcs
  <1>2. IInv /\ Stopping => StopSavesAll
    BY DEF IInv, CrashConsistent, Stopping, StopSavesAll
  <1> QED BY <1>1, <1>2, NextStopping, Invariance, PTL DEF Spec
-----------------------------------------------------------------------------
(***************************************************************************)
(* Refinement of DurableLedger.                                            *)
(***************************************************************************)

\* The checkpoint the ledger falls back to.
Kept == IF startCommitFlag THEN logged ELSE durable

\* What a crash leaves is the same in all the stores.
LEMMA KeptEverywhere ==
    IInv => [s \in Stores |-> Recovered(s)] = Everywhere(Kept)
  BY DEF IInv, CrashConsistent, Everywhere, Kept

\* Every step of the flusher changes the ledger, its checkpoint, the durable
\* checkpoint and the kept one as a step of DurableLedger, or not at all.
LEMMA StepKinds ==
    ASSUME IInv, [Next]_vars
    PROVE  \/ /\ content' \in Content
              /\ prepared' = prepared /\ durable' = durable /\ Kept' = Kept
           \/ /\ prepared' = content
              /\ content' = content /\ durable' = durable /\ Kept' = Kept
           \/ /\ Kept' = prepared
              /\ content' = content /\ prepared' = prepared /\ durable' = durable
           \/ /\ durable' = Kept
              /\ content' = content /\ prepared' = prepared /\ Kept' = Kept
           \/ /\ Kept' = durable
              /\ content' = content /\ prepared' = prepared /\ durable' = durable
           \/ /\ content' = Kept /\ prepared' = Kept /\ durable' = Kept /\ Kept' = Kept
  <1> USE DEF storeVars, logVars, flushVars, lifeVars, opVars, boundVars, histVars, Kept
  <1>0. TypeOK /\ Log /\ TypeOK'
    BY NextType DEF IInv
  <1>1. CASE EndOp
    BY <1>0, <1>1 DEF EndOp, TypeOK
  <1>2. CASE Prepare
    BY <1>2 DEF Prepare
  <1>3. CASE WriteFlag
    BY <1>3 DEF WriteFlag
  <1>4. CASE SyncRedoLog
    BY <1>0, <1>4 DEF SyncRedoLog, Log
  <1>5. CASE TruncateLog \/ Clean \/ RedoDone \/ Recover
    BY <1>0, <1>5 DEF TruncateLog, Clean, RedoDone, Recover, CleanRedoLog, TypeOK
  <1>6. CASE ProcessEnds
    BY <1>6 DEF ProcessEnds
  <1>7. CASE UNCHANGED <<histVars, startCommitFlag>>
    BY <1>0, <1>7 DEF TypeOK
  <1>8. CASE ChainStep \/ LoopStep \/ Start \/ Stop
    BY <1>1, <1>7, <1>8, Zenon
       DEF ChainStep, BeginOp, WriteStore, PanicOp, AbortDone, LoopStep,
           LoopFlush, LoopAborted, Start, Stop
  <1>9. CASE FlushStep
    <2>1. CASE PrepareRepeatedly
      BY <1>6, <2>1 DEF PrepareRepeatedly
    <2>2. CASE ChainFlush \/ WriteFails \/ SyncFails \/ CancelPrepare
               \/ AfterCommit
      BY <1>7, <2>2 DEF ChainFlush, WriteFails, SyncFails, CancelPrepare,
                        AfterCommit
    <2>3. ASSUME NEW s \in Stores, WriteRecord(s) \/ CommitStore(s) \/ CommitFails(s)
          PROVE  UNCHANGED <<histVars, startCommitFlag>>
      BY <2>3 DEF WriteRecord, CommitStore, CommitFails
    <2> QED BY <1>2, <1>3, <1>4, <1>5, <1>7, <1>9, <2>1, <2>2, <2>3, Zenon DEF FlushStep
  <1>10. CASE RedoStep
    <2>1. CASE RedoFails
      BY <1>6, <2>1 DEF RedoFails
    <2>2. ASSUME NEW s \in Stores, RedoStore(s)
          PROVE  UNCHANGED <<histVars, startCommitFlag>>
      BY <2>2 DEF RedoStore
    <2> QED BY <1>5, <1>7, <1>10, <2>1, <2>2 DEF RedoStep
  <1>11. CASE Crash \/ PanicEnds
    BY <1>6, <1>11 DEF Crash, PanicEnds
  <1>12. CASE UNCHANGED vars
    BY <1>7, <1>12 DEF vars
  <1> QED BY <1>5, <1>8, <1>9, <1>10, <1>11, <1>12, Zenon DEF Next

\* The flusher with its stores and its redo log implements DurableLedger: over
\* any crash the ledger falls back to a checkpoint, the same in every store.
THEOREM ImplementsLedger == Spec => LedgerSpec
  <1>1. Init => Ledger!Init
    <2> SUFFICES ASSUME Init PROVE Ledger!Init
      OBVIOUS
    <2>1. [s \in Stores |-> Recovered(s)] = Everywhere(EmptyContent)
      BY DEF Init, Recovered, Everywhere
    <2>2. Everywhere(EmptyContent) \in {Everywhere(c) : c \in Content}
      BY Constants
    <2> QED BY <2>1, <2>2 DEF Init, Ledger!Init
  <1>2. IInv /\ IInv' /\ [Next]_vars => [Ledger!Next]_(Ledger!vars)
    <2> SUFFICES ASSUME IInv, IInv', [Next]_vars
                 PROVE  [Ledger!Next]_(Ledger!vars)
      OBVIOUS
    <2>1. /\ [s \in Stores |-> Recovered(s)] = Everywhere(Kept)
          /\ [s \in Stores |-> Recovered(s)]' = Everywhere(Kept')
      BY KeptEverywhere DEF IInv, CrashConsistent, Everywhere, Kept
    <2> QED
      BY <2>1, StepKinds
         DEF Ledger!Next, Ledger!vars, Ledger!Change, Ledger!Take, Ledger!Log, Ledger!Commit,
             Ledger!Withdraw, Ledger!Crash, Everywhere
  <1> QED BY <1>1, <1>2, Invariance, PTL DEF Spec, Ledger!Spec, LedgerSpec
=============================================================================
