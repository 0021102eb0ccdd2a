------------------------------ MODULE Batches ------------------------------
(***************************************************************************)
(* Write batches of the key-value stores, common/db/xleveldb/batch.go.     *)
(*                                                                         *)
(* A batch is the list of Put and Delete records collected since it was    *)
(* reset.  What a batch does when it is replayed depends only on its last  *)
(* record for each key, so a batch is the function from keys to that       *)
(* record: a value (Put), None (Delete) or Keep (the batch does not        *)
(* mention the key).  The contents of a store is the function from keys to *)
(* values, None where the key is absent.                                   *)
(***************************************************************************)
CONSTANTS Key, Value, None, Keep

ASSUME RecordAssumption == None \notin Value /\ Keep \notin Value \cup {None}

Content == [Key -> Value \cup {None}]
Batch == [Key -> Value \cup {None, Keep}]

EmptyContent == [k \in Key |-> None]

\* Batch.Reset, or a batch fresh from the pool.
EmptyBatch == [k \in Key |-> Keep]

\* Mutant: a key the batch does not mention is overwritten as well.
ReplayAll(b, target) == [k \in Key |-> b[k]]

(***************************************************************************)
(* Batch.Replay: the records of b are put one after the other on a target, *)
(* which is another batch (Batch.Append), a memory table, or the contents  *)
(* of a store (DB.Write).                                                  *)
(***************************************************************************)
Replay(b, target) == [k \in Key |-> IF b[k] = Keep THEN target[k] ELSE b[k]]

\* A batch with the one record (k, v); v = None is a Delete.
Single(k, v) == [EmptyBatch EXCEPT ![k] = v]
=============================================================================
