------------------------------ MODULE Flusher ------------------------------
(***************************************************************************)
(* The flusher of the chain database (ledger/chain/flusher/flusher.go).    *)
(*                                                                         *)
(* The ledger is kept in several stores (block files, state, state redo    *)
(* log, index, plugins).  The chain writes an operation to the stores one  *)
(* after the other, in memory, holding the read side of flushMu.  The      *)
(* flusher carries the collected batches to disk in a way that is meant to *)
(* be atomic over all the stores: it takes the batches of every store      *)
(* under the write side of flushMu (Prepare), writes all of them to one    *)
(* redo log file closed by a commit flag, commits each store in a          *)
(* goroutine of its own, and truncates the log.  After a crash Recover     *)
(* replays a log that has its flag and drops one that has not.             *)
(*                                                                         *)
(* Every store is modelled by the part of chain_db.Store the flusher uses  *)
(* (ledger/chain/db/flush.go): its disk contents, the batch collected      *)
(* since the last Prepare and the batch being flushed.  The memory table   *)
(* and the unconfirmed blocks of a store are the subject of Store.  An     *)
(* operation writes the same record to every store, standing for its       *)
(* projection on that store: stores agree iff they hold the same           *)
(* operations.                                                             *)
(*                                                                         *)
(* Simplifications.                                                        *)
(*  - The loops over storeList pick the stores in any order, so that what  *)
(*    is shown holds for every order of the list.                          *)
(*  - A crash is the end of the process: what was written to a file        *)
(*    survives it.  (Power loss is not modelled; the stores are written    *)
(*    without fsync.)                                                      *)
(*  - Truncating the log file at the start of writeRedoLog succeeds or the *)
(*    flush is given up; at the other places it may fail silently.         *)
(*  - ReplaceStore (a plugin store rebuilt offline) is left out.           *)
(***************************************************************************)
EXTENDS Batches, Naturals, FiniteSets

CONSTANTS Stores,      \* storeList
          NoBatch,     \* a nil *leveldb.Batch, or no record in the redo log
          Faults,      \* kinds of fault that may happen, see FaultKinds
          MaxOps,      \* bound: operations started in a behaviour
          MaxFaults    \* bound: faults in a behaviour

FaultKinds == {"crash",   \* the process ends
               "panic",   \* a chain operation panics half way
               "write",   \* writing the redo log fails
               "sync",    \* fsync of the redo log fails
               "commit",  \* a store fails to commit
               "redo",    \* a store fails to replay its redo log
               "clean"}   \* truncating the redo log fails

ASSUME FlusherAssumption ==
    /\ Stores # {}
    /\ NoBatch \notin Batch
    /\ Faults \subseteq FaultKinds
    /\ MaxOps \in Nat
    /\ MaxFaults \in Nat

VARIABLES
    \* the stores
    disk,            \* contents of the database of every store
    snapshotBatch,   \* collected since the last Prepare
    flushingBatch,   \* being flushed, or NoBatch
    \* the redo log file
    redoLog,         \* record of every store, or NoBatch
    startCommitFlag, \* is the file closed by the commit flag
    \* the flush in progress: the holder of flushingMu
    pc, todo, commitErr,
    flushBy,         \* who runs it: "loop" or "chain" (Flush after a delete)
    \* life cycle
    status,          \* flusherStatus: "stop", "start", "aborted"
    loop,            \* goroutine of loopFlush: "none", "ready", "flushing", "final"
    \* the chain operation in progress; it holds flushMu.RLock in "write", "aborting"
    opPc, opTodo, op,
    \* bounds
    ops, faults,
    \* history: the ledger contents after the last complete operation, at the
    \* last Prepare, at the Prepare of the flagged log, and at the last Prepare
    \* whose log was synced
    content, prepared, logged, durable

storeVars == <<disk, snapshotBatch, flushingBatch>>
logVars   == <<redoLog, startCommitFlag>>
flushVars == <<pc, todo, commitErr, flushBy>>
lifeVars  == <<status, loop>>
opVars    == <<opPc, opTodo, op>>
boundVars == <<ops, faults>>
histVars  == <<content, prepared, logged, durable>>
vars == <<storeVars, logVars, flushVars, lifeVars, opVars, boundVars, histVars>>

NoLog == [s \in Stores |-> NoBatch]

Init ==
    /\ disk = [s \in Stores |-> EmptyContent]
    /\ snapshotBatch = [s \in Stores |-> EmptyBatch]
    /\ flushingBatch = [s \in Stores |-> NoBatch]
    /\ redoLog = NoLog /\ startCommitFlag = FALSE
    /\ pc = "idle" /\ todo = {} /\ commitErr = FALSE /\ flushBy = "loop"
    /\ status = "stop" /\ loop = "none"
    /\ opPc = "idle" /\ opTodo = {} /\ op = EmptyBatch
    /\ ops = 0 /\ faults = 0
    /\ content = EmptyContent /\ prepared = EmptyContent
    /\ logged = EmptyContent /\ durable = EmptyContent

Running == pc \notin {"down", "recover"}

\* flushMu: the operation in progress holds the read side.
RLocked == opPc \in {"write", "aborting"}

Fault(kind) == kind \in Faults /\ faults < MaxFaults /\ faults' = faults + 1

\* cleanRedoLog: a failed Truncate is logged and otherwise ignored.
CleanRedoLog ==
    \/ /\ redoLog' = NoLog
       /\ startCommitFlag' = FALSE
       /\ UNCHANGED faults
    \/ /\ Fault("clean")
       /\ UNCHANGED logVars

-----------------------------------------------------------------------------
(***************************************************************************)
(* Chain operations: insertSnapshotBlock, deleteSnapshotBlocksToHeight.    *)
(***************************************************************************)

\* flushMu.RLock; vite.Stop stops the pool before the chain, so that no
\* operation starts once the flusher is stopped.
BeginOp(k, v) ==
    /\ Running /\ status # "stop"
    /\ opPc = "idle" /\ ops < MaxOps
    /\ opPc' = "write" /\ opTodo' = Stores /\ op' = Single(k, v)
    /\ ops' = ops + 1
    /\ UNCHANGED <<storeVars, logVars, flushVars, lifeVars, faults, histVars>>

\* Store.WriteSnapshot, Store.RollbackSnapshot on one of the stores.
WriteStore(s) ==
    /\ Running /\ opPc = "write" /\ s \in opTodo
    /\ snapshotBatch' = [snapshotBatch EXCEPT ![s] = Replay(op, @)]
    /\ opTodo' = opTodo \ {s}
    /\ UNCHANGED <<disk, flushingBatch, logVars, flushVars, lifeVars, opPc, op,
                   boundVars, histVars>>

\* RUnlock at the end.  A delete goes on to Flush synchronously.
EndOp ==
    /\ Running /\ opPc = "write" /\ opTodo = {}
    /\ opPc' \in {"idle", "flush"}
    /\ content' = Replay(op, content)
    /\ UNCHANGED <<storeVars, logVars, flushVars, lifeVars, opTodo, op, boundVars,
                   prepared, logged, durable>>

\* The deferred recover() of the operation calls Abort before RUnlock.  Abort
\* does nothing when the flusher is not started, else waits for the loop.
PanicOp ==
    /\ Running /\ opPc = "write"
    /\ Fault("panic")
    /\ IF status = "start"
         THEN opPc' = "aborting" /\ status' = "aborted"
         ELSE opPc' = "dead" /\ UNCHANGED status
    /\ UNCHANGED <<storeVars, logVars, flushVars, loop, opTodo, op, ops, histVars>>

\* wg.Wait returns; RUnlock; the panic goes on and ends the process.
AbortDone ==
    /\ Running /\ opPc = "aborting" /\ loop = "none"
    /\ opPc' = "dead"
    /\ UNCHANGED <<storeVars, logVars, flushVars, lifeVars, opTodo, op, boundVars,
                   histVars>>

-----------------------------------------------------------------------------
(***************************************************************************)
(* Start, Stop and the flush loop.                                         *)
(***************************************************************************)

Start ==
    /\ Running /\ status = "stop" /\ loop = "none"
    /\ status' = "start" /\ loop' = "ready"
    /\ UNCHANGED <<storeVars, logVars, flushVars, opVars, boundVars, histVars>>

\* Called by chain.Stop, when the pool has stopped.
Stop ==
    /\ Running /\ status = "start" /\ opPc = "idle"
    /\ status' = "stop"
    /\ UNCHANGED <<storeVars, logVars, flushVars, loop, opVars, boundVars, histVars>>

\* Mutant: the loop leaves at once when the terminal channel is closed.
LoopFlushNotAtStop ==
    /\ pc = "idle" /\ loop = "ready" /\ status # "aborted"
    /\ IF status = "start" THEN loop' = "flushing" /\ pc' = "prepare"
                           ELSE loop' = "none" /\ pc' = "idle"
    /\ flushBy' = "loop"
    /\ UNCHANGED <<storeVars, logVars, todo, commitErr, status, opVars, boundVars,
                   histVars>>

\* One turn of the loop: a flush while the terminal channel is open; a last
\* flush after Stop.
LoopFlush ==
    /\ pc = "idle" /\ loop = "ready" /\ status # "aborted"
    /\ loop' = IF status = "start" THEN "flushing" ELSE "final"
    /\ pc' = "prepare" /\ flushBy' = "loop"
    /\ UNCHANGED <<storeVars, logVars, todo, commitErr, status, opVars, boundVars,
                   histVars>>

LoopAborted ==
    /\ Running /\ loop = "ready" /\ status = "aborted"
    /\ loop' = "none"
    /\ UNCHANGED <<storeVars, logVars, flushVars, status, opVars, boundVars, histVars>>

\* Flush: called by deleteSnapshotBlocksToHeight.
ChainFlush ==
    /\ pc = "idle" /\ opPc = "flush"
    /\ pc' = "prepare" /\ flushBy' = "chain"
    /\ UNCHANGED <<storeVars, logVars, todo, commitErr, lifeVars, opVars, boundVars,
                   histVars>>

\* flush returns: flushingMu is released and its caller goes on.
FlushReturns ==
    /\ pc' = "idle"
    /\ loop' = IF flushBy = "chain" THEN loop
               ELSE IF loop = "final" THEN "none" ELSE "ready"
    /\ opPc' = IF flushBy = "chain" THEN "idle" ELSE opPc

-----------------------------------------------------------------------------
(***************************************************************************)
(* End of the process, and Recover at the next start.                      *)
(***************************************************************************)

\* What the database will hold once Recover is done.
Recovered(s) == IF startCommitFlag /\ redoLog[s] # NoBatch
                THEN Replay(redoLog[s], disk[s]) ELSE disk[s]

\* Everything in memory is gone.  The ledger is back at the checkpoint of the
\* flagged log, or at the last durable one.
ProcessEnds ==
    LET kept == IF startCommitFlag THEN logged ELSE durable IN
    /\ snapshotBatch' = [s \in Stores |-> EmptyBatch]
    /\ flushingBatch' = [s \in Stores |-> NoBatch]
    /\ pc' = "down" /\ todo' = {} /\ commitErr' = FALSE /\ flushBy' = "loop"
    /\ status' = "stop" /\ loop' = "none"
    /\ opPc' = "idle" /\ opTodo' = {} /\ op' = EmptyBatch
    /\ content' = kept /\ prepared' = kept /\ logged' = kept /\ durable' = kept
    /\ UNCHANGED <<disk, logVars, ops>>

Crash == pc # "down" /\ Fault("crash") /\ ProcessEnds

\* The panic of an operation reaches the top of its goroutine.
PanicEnds == opPc = "dead" /\ ProcessEnds /\ UNCHANGED faults

\* loadRedo: a log without the flag, or with nothing in it, is dropped.
Recover ==
    /\ pc = "down"
    /\ IF startCommitFlag /\ redoLog # NoLog
         THEN /\ pc' = "recover"
              /\ todo' = {s \in Stores : redoLog[s] # NoBatch}
              /\ UNCHANGED <<logVars, faults>>
         ELSE /\ pc' = "idle"
              /\ CleanRedoLog
              /\ UNCHANGED todo
    /\ UNCHANGED <<storeVars, commitErr, flushBy, lifeVars, opVars, ops, histVars>>

\* redo, from Recover or from commitRedo: Store.PatchRedoLog of one store.
RedoStore(s) ==
    /\ pc \in {"recover", "redo"} /\ s \in todo
    /\ disk' = [disk EXCEPT ![s] = Replay(redoLog[s], @)]
    /\ todo' = todo \ {s}
    /\ UNCHANGED <<snapshotBatch, flushingBatch, logVars, pc, commitErr, flushBy,
                   lifeVars, opVars, boundVars, histVars>>

\* Recover returns the error and the node does not start; commitRedo panics.
RedoFails ==
    /\ pc \in {"recover", "redo"} /\ todo # {}
    /\ Fault("redo")
    /\ ProcessEnds

RedoDone ==
    /\ pc \in {"recover", "redo"} /\ todo = {}
    /\ CleanRedoLog
    /\ pc' = IF pc = "recover" THEN "idle" ELSE "clean"
    /\ UNCHANGED <<storeVars, todo, commitErr, flushBy, lifeVars, opVars, ops, histVars>>

-----------------------------------------------------------------------------
(***************************************************************************)
(* flush.                                                                  *)
(***************************************************************************)

\* Mutant: the batches are taken without flushMu.Lock.
PrepareUnlocked ==
    /\ pc = "prepare" /\ status # "aborted"
    /\ \A s \in Stores : flushingBatch[s] = NoBatch
    /\ flushingBatch' = snapshotBatch
    /\ snapshotBatch' = [s \in Stores |-> EmptyBatch]
    /\ prepared' = content
    /\ pc' = "writeLog" /\ todo' = Stores
    /\ UNCHANGED <<disk, logVars, commitErr, flushBy, lifeVars, opVars, boundVars,
                   content, logged, durable>>

\* Store.Prepare of every store, under flushMu.Lock.  The error return of prepare
\* for an aborted flusher has no action: Abort is called under RLock and returns
\* when the loop has ended, so nobody comes here with flushMu free after it.
Prepare ==
    /\ pc = "prepare" /\ ~RLocked /\ status # "aborted"
    /\ \A s \in Stores : flushingBatch[s] = NoBatch
    /\ flushingBatch' = snapshotBatch
    /\ snapshotBatch' = [s \in Stores |-> EmptyBatch]
    /\ prepared' = content
    /\ pc' = "writeLog" /\ todo' = Stores
    /\ UNCHANGED <<disk, logVars, commitErr, flushBy, lifeVars, opVars, boundVars,
                   content, logged, durable>>

\* panic("prepare repeatedly") in Store.Prepare.
PrepareRepeatedly ==
    /\ pc = "prepare" /\ ~RLocked /\ status # "aborted"
    /\ \E s \in Stores : flushingBatch[s] # NoBatch
    /\ ProcessEnds
    /\ UNCHANGED faults

\* writeRedoLog starts: cleanRedoLog.
TruncateLog ==
    /\ pc = "writeLog"
    /\ redoLog' = NoLog /\ startCommitFlag' = FALSE
    /\ pc' = "writeRecords"
    /\ UNCHANGED <<storeVars, todo, commitErr, flushBy, lifeVars, opVars, boundVars,
                   histVars>>

\* The record of one store; an empty redo log is skipped.
WriteRecord(s) ==
    /\ pc = "writeRecords" /\ s \in todo
    /\ redoLog' = [redoLog EXCEPT ![s] =
                     IF flushingBatch[s] = EmptyBatch THEN NoBatch ELSE flushingBatch[s]]
    /\ todo' = todo \ {s}
    /\ UNCHANGED <<storeVars, startCommitFlag, pc, commitErr, flushBy, lifeVars, opVars,
                   boundVars, histVars>>

\* Mutant: the flag is written before the records are complete.
WriteFlagEarly ==
    /\ pc = "writeRecords"
    /\ startCommitFlag' = TRUE
    /\ logged' = prepared
    /\ pc' = "syncLog"
    /\ UNCHANGED <<storeVars, redoLog, todo, commitErr, flushBy, lifeVars, opVars,
                   boundVars, content, prepared, durable>>

WriteFlag ==
    /\ pc = "writeRecords" /\ todo = {}
    /\ startCommitFlag' = TRUE
    /\ logged' = prepared
    /\ pc' = "syncLog"
    /\ UNCHANGED <<storeVars, redoLog, todo, commitErr, flushBy, lifeVars, opVars,
                   boundVars, content, prepared, durable>>

\* writeRedoLog returns an error: flush returns, the stores stay prepared.
WriteFails ==
    /\ pc \in {"writeLog", "writeRecords"}
    /\ Fault("write")
    /\ FlushReturns
    /\ UNCHANGED <<storeVars, logVars, todo, commitErr, flushBy, status, opTodo, op,
                   ops, histVars>>

SyncRedoLog ==
    /\ pc = "syncLog"
    /\ durable' = prepared
    /\ pc' = "commit" /\ todo' = Stores /\ commitErr' = FALSE
    /\ UNCHANGED <<storeVars, logVars, flushBy, lifeVars, opVars, boundVars, content,
                   prepared, logged>>

SyncFails ==
    /\ pc = "syncLog"
    /\ Fault("sync")
    /\ pc' = "cancel"
    /\ UNCHANGED <<storeVars, logVars, todo, commitErr, flushBy, lifeVars, opVars, ops,
                   histVars>>

\* Mutant: the two batches are appended in the wrong order.
CancelPrepareSwapped ==
    /\ pc = "cancel" /\ ~RLocked
    /\ snapshotBatch' = [s \in Stores |-> Replay(flushingBatch[s], snapshotBatch[s])]
    /\ flushingBatch' = [s \in Stores |-> NoBatch]
    /\ pc' = "clean"
    /\ UNCHANGED <<disk, logVars, todo, commitErr, flushBy, lifeVars, opVars, boundVars,
                   histVars>>

\* Store.CancelPrepare of every store, under flushMu.Lock.
CancelPrepare ==
    /\ pc = "cancel" /\ ~RLocked
    /\ snapshotBatch' = [s \in Stores |-> Replay(snapshotBatch[s], flushingBatch[s])]
    /\ flushingBatch' = [s \in Stores |-> NoBatch]
    /\ pc' = "clean"
    /\ UNCHANGED <<disk, logVars, todo, commitErr, flushBy, lifeVars, opVars, boundVars,
                   histVars>>

\* Store.Commit of one store, in a goroutine of its own.
CommitStore(s) ==
    /\ pc = "commit" /\ s \in todo
    /\ disk' = [disk EXCEPT ![s] = Replay(flushingBatch[s], @)]
    /\ todo' = todo \ {s}
    /\ UNCHANGED <<snapshotBatch, flushingBatch, logVars, pc, commitErr, flushBy,
                   lifeVars, opVars, boundVars, histVars>>

CommitFails(s) ==
    /\ pc = "commit" /\ s \in todo
    /\ Fault("commit")
    /\ commitErr' = TRUE
    /\ todo' = todo \ {s}
    /\ UNCHANGED <<storeVars, logVars, pc, flushBy, lifeVars, opVars, ops, histVars>>

\* Mutant: a failed commit is not redone.
AfterCommitNoRedo ==
    /\ pc = "commit" /\ todo = {} /\ ~RLocked
    /\ flushingBatch' = [s \in Stores |-> NoBatch]
    /\ pc' = "clean"
    /\ UNCHANGED <<disk, snapshotBatch, todo, logVars, commitErr, flushBy, lifeVars,
                   opVars, boundVars, histVars>>

\* Store.AfterCommit of every store, under flushMu.Lock.  If a commit failed,
\* commitRedo loads the log and replays it.
AfterCommit ==
    /\ pc = "commit" /\ todo = {} /\ ~RLocked
    /\ flushingBatch' = [s \in Stores |-> NoBatch]
    /\ IF commitErr
         THEN pc' = "redo" /\ todo' = {s \in Stores : redoLog[s] # NoBatch}
         ELSE pc' = "clean" /\ UNCHANGED todo
    /\ UNCHANGED <<disk, snapshotBatch, logVars, commitErr, flushBy, lifeVars, opVars,
                   boundVars, histVars>>

\* The last cleanRedoLog of flush, or the one of a failed sync.
Clean ==
    /\ pc = "clean"
    /\ CleanRedoLog
    /\ FlushReturns
    /\ UNCHANGED <<storeVars, todo, commitErr, flushBy, status, opTodo, op, ops,
                   histVars>>

-----------------------------------------------------------------------------
ChainStep ==
    \/ \E k \in Key, v \in Value \cup {None} : BeginOp(k, v)
    \/ \E s \in Stores : WriteStore(s)
    \/ EndOp \/ PanicOp \/ AbortDone

LoopStep == LoopFlush \/ LoopAborted

FlushStep ==
    \/ ChainFlush \/ Prepare \/ PrepareRepeatedly
    \/ TruncateLog \/ WriteFlag \/ WriteFails
    \/ \E s \in Stores : WriteRecord(s)
    \/ SyncRedoLog \/ SyncFails \/ CancelPrepare
    \/ \E s \in Stores : CommitStore(s) \/ CommitFails(s)
    \/ AfterCommit \/ Clean

RedoStep ==
    \/ \E s \in Stores : RedoStore(s)
    \/ RedoFails \/ RedoDone

Next ==
    \/ ChainStep \/ LoopStep \/ FlushStep \/ RedoStep
    \/ Start \/ Stop \/ Crash \/ PanicEnds \/ Recover

Spec == Init /\ [][Next]_vars
-----------------------------------------------------------------------------
(***************************************************************************)
(* Properties                                                              *)
(***************************************************************************)

\* Type invariant: what the stores, the redo log file and the goroutines can hold.
TypeOK ==
    /\ disk \in [Stores -> Content]
    /\ snapshotBatch \in [Stores -> Batch]
    /\ flushingBatch \in [Stores -> Batch \cup {NoBatch}]
    /\ redoLog \in [Stores -> Batch \cup {NoBatch}]
    /\ startCommitFlag \in BOOLEAN
    /\ pc \in {"down", "recover", "idle", "prepare", "writeLog", "writeRecords",
               "syncLog", "cancel", "commit", "redo", "clean"}
    /\ todo \in SUBSET Stores
    /\ commitErr \in BOOLEAN
    /\ flushBy \in {"loop", "chain"}
    /\ status \in {"stop", "start", "aborted"}
    /\ loop \in {"none", "ready", "flushing", "final"}
    /\ opPc \in {"idle", "write", "flush", "aborting", "dead"}
    /\ opTodo \in SUBSET Stores
    /\ op \in Batch
    /\ ops \in Nat /\ faults \in Nat
    /\ content \in Content /\ prepared \in Content
    /\ logged \in Content /\ durable \in Content

(***************************************************************************)
(* Whenever the process ends, Recover brings every store to the contents   *)
(* the ledger had after one and the same complete operation: the           *)
(* checkpoint of the flagged redo log, or the last durable one.  No store  *)
(* is ahead of another, and no operation is half there.  (flush, Recover.) *)
(***************************************************************************)
CrashConsistent ==
    \A s \in Stores : Recovered(s) = IF startCommitFlag THEN logged ELSE durable

(***************************************************************************)
(* No complete operation falls out of the pipeline, whatever fails: what   *)
(* is on disk or in the redo log, with the batch being flushed and the one *)
(* being collected on top, is the ledger.  (Prepare, CancelPrepare,        *)
(* AfterCommit, commitRedo.)                                               *)
(***************************************************************************)
Pipeline(s) ==
    Replay(snapshotBatch[s],
           IF flushingBatch[s] = NoBatch THEN Recovered(s)
           ELSE Replay(flushingBatch[s], Recovered(s)))

NothingLost ==
    opPc \in {"idle", "flush"} => \A s \in Stores : Pipeline(s) = content

(***************************************************************************)
(* Stop flushes what is left: once the loop has ended after a Stop, and    *)
(* nothing failed, a restart finds every operation.  (loopFlush, Stop.)    *)
(***************************************************************************)
StopSavesAll ==
    (status = "stop" /\ loop = "none" /\ faults = 0)
        => \A s \in Stores : Recovered(s) = content

(***************************************************************************)
(* The flusher implements DurableLedger: the value of the ledger is the    *)
(* same in all the stores, and what a crash leaves is what Recover will    *)
(* make of the databases and the log.                                      *)
(***************************************************************************)
Everywhere(c) == [s \in Stores |-> c]

Ledger == INSTANCE DurableLedger WITH
    State      <- {Everywhere(c) : c \in Content},
    content    <- Everywhere(content),
    checkpoint <- Everywhere(prepared),
    durable    <- Everywhere(durable),
    kept       <- [s \in Stores |-> Recovered(s)]

LedgerSpec == Ledger!Spec

(***************************************************************************)
(* The assertion in Store.Prepare: a store is not prepared twice.          *)
(***************************************************************************)
NeverPreparedTwice ==
    pc = "prepare" /\ status # "aborted" => \A s \in Stores : flushingBatch[s] = NoBatch

(***************************************************************************)
(* Fairness: the goroutine of the loop, the goroutine of an operation and  *)
(* the flush they call are scheduled; a blocked Lock is granted once the   *)
(* lock stays free.  No fault is ever forced, nor is the start of an       *)
(* operation, nor Start, Stop and the restart of the node.                 *)
(***************************************************************************)
FairSpec ==
    /\ Spec
    /\ WF_vars(LoopStep)
    /\ WF_vars(EndOp \/ AbortDone \/ \E s \in Stores : WriteStore(s))
    /\ WF_vars(ChainFlush \/ Prepare \/ TruncateLog \/ WriteFlag
               \/ SyncRedoLog \/ CancelPrepare \/ AfterCommit \/ Clean \/ RedoDone
               \/ \E s \in Stores : WriteRecord(s) \/ CommitStore(s) \/ RedoStore(s))

(***************************************************************************)
(* A started flusher sooner or later makes every operation durable, also   *)
(* when syncs, commits and truncations fail now and then.  (loopFlush; an   *)
(* instance has finitely many operations, so its contents settle.)         *)
(***************************************************************************)
EventuallyDurable ==
    <>[](status = "start") => <>[](\A s \in Stores : disk[s] = content)

(***************************************************************************)
(* An operation that panics gets through Abort and RUnlock, so that the    *)
(* panic is raised again.  (Abort, the deferred recover of an operation.)  *)
(***************************************************************************)
AbortReturns == opPc = "aborting" ~> opPc # "aborting"
=============================================================================
