------------------------------- MODULE MCDisk -------------------------------
(***************************************************************************)
(* What the ledger keeps on disk beside the state: the block files         *)
(* (BlockDB), and the index with the sends on the road (Onroad).  Both are *)
(* stores of the flusher and share no state, so a behaviour is one of the  *)
(* files or one of the index.                                              *)
(*                                                                         *)
(* The index: a user, and a contract that also calls itself.               *)
(***************************************************************************)
EXTENDS BlockDB

CONSTANTS Keep, NoBatch

VARIABLES part, chunks, unconfirmed, index, indexCache, storage, reading,
          confirmed, reverts, checkpoints, crashes

indexVars == <<chunks, unconfirmed, index, indexCache, storage, reading, confirmed,
               reverts, checkpoints, crashes>>

\* Every rollback of blocks in up to two snapshot blocks above the genesis.
Reverts == INSTANCE Onroad WITH
        Users <- {"u"}, Contracts <- {"A"}, Targets <- [u |-> {"A"}, A |-> {"A", "u"}],
        MaxSends <- 1, MaxBlocks <- 3, MaxLength <- 2, MaxHeight <- 3,
        MaxRollbacks <- 2, MaxFlushes <- 0, MaxCrashes <- 0,
        pool <- unconfirmed, cache <- indexCache, durable <- confirmed,
        rollbacks <- reverts, flushes <- checkpoints

\* Restarts, and two sends of one block.
Restarts == INSTANCE Onroad WITH
        Users <- {"u"}, Contracts <- {"A"}, Targets <- [u |-> {"A"}, A |-> {"A"}],
        MaxSends <- 2, MaxBlocks <- 3, MaxLength <- 2, MaxHeight <- 2,
        MaxRollbacks <- 1, MaxFlushes <- 1, MaxCrashes <- 1,
        pool <- unconfirmed, cache <- indexCache, durable <- confirmed,
        rollbacks <- reverts, flushes <- checkpoints

NoIndex == /\ chunks = None /\ unconfirmed = None /\ index = None /\ indexCache = None
           /\ storage = None /\ reading = None /\ confirmed = None
           /\ reverts = None /\ checkpoints = None /\ crashes = None

MCInit == /\ Init
          /\ \/ part = "files" /\ NoIndex
             \/ part = "reverts" /\ Reverts!Init
             \/ part = "restarts" /\ Restarts!Init
MCNext == \/ part = "files" /\ Next /\ UNCHANGED <<part, indexVars>>
          \/ part = "reverts" /\ Reverts!Next /\ UNCHANGED <<part, vars>>
          \/ part = "restarts" /\ Restarts!Next /\ UNCHANGED <<part, vars>>
MCSpec == MCInit /\ [][MCNext]_<<part, vars, indexVars>>

\* The index database is the index of the chain.
IndexAgrees ==
    /\ part = "reverts" => Reverts!IndexAgrees
    /\ part = "restarts" => Restarts!IndexAgrees

\* The onroad pool has exactly the sends to contracts that are on the road.
OnroadAgrees ==
    /\ part = "reverts" => Reverts!OnroadAgrees
    /\ part = "restarts" => Restarts!OnroadAgrees

\* A contract receives the sends of a caller in the order they were made.
ReceivedInOrder ==
    /\ part = "reverts" => Reverts!ReceivedInOrder
    /\ part = "restarts" => Restarts!ReceivedInOrder
=============================================================================
