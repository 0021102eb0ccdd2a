--------------------------- MODULE DurableLedger ---------------------------
(***************************************************************************)
(* What the chain database promises about crashes.                         *)
(*                                                                         *)
(* The ledger is one value.  Operations replace it; from time to time its  *)
(* value is taken as a checkpoint and the checkpoint is made durable.      *)
(* When the process ends the ledger falls back to what is kept on disk,    *)
(* which is the last durable checkpoint, or the newer one on its way       *)
(* there.  It never falls back to anything else: not to a value the ledger *)
(* had between two checkpoints, not to a mixture of two checkpoints.       *)
(***************************************************************************)
CONSTANT State

VARIABLES content,     \* the ledger
          checkpoint,  \* its value when it was last taken for saving
          durable,     \* the last checkpoint known to be on disk
          kept         \* what a crash would leave

vars == <<content, checkpoint, durable, kept>>

Init ==
    /\ content \in State
    /\ checkpoint = content /\ durable = content /\ kept = content

Change ==
    /\ content' \in State
    /\ UNCHANGED <<checkpoint, durable, kept>>

Take ==
    /\ checkpoint' = content
    /\ UNCHANGED <<content, durable, kept>>

Log ==
    /\ kept' = checkpoint
    /\ UNCHANGED <<content, checkpoint, durable>>

Commit ==
    /\ durable' = kept
    /\ UNCHANGED <<content, checkpoint, kept>>

\* Saving a checkpoint failed before it was durable.
Withdraw ==
    /\ kept' = durable
    /\ UNCHANGED <<content, checkpoint, durable>>

Crash ==
    /\ content' = kept /\ checkpoint' = kept /\ durable' = kept
    /\ UNCHANGED kept

Next == Change \/ Take \/ Log \/ Commit \/ Withdraw \/ Crash

Spec == Init /\ [][Next]_vars
=============================================================================
