------------------------------- MODULE MCNet --------------------------------
(***************************************************************************)
(* The synchronisation with the network: how the skeleton is agreed on     *)
(* (Skeleton), how it is cut into tasks (SyncTasks), and how the tasks are *)
(* downloaded, read and inserted (Sync).  Each hands the next a list when  *)
(* it is done, and shares no state with it, so a behaviour is one of one   *)
(* part.                                                                   *)
(*                                                                         *)
(* Skeleton: three peers, two of which may know another chain, and one of  *)
(* them a black block; three requests, in one round or in several.         *)
(* SyncTasks: up to four points and two cached chunks.  Sync: two segments *)
(* in two windows, a download queue of one task and a buffer of one chunk, *)
(* a fault, and a retry.                                                   *)
(***************************************************************************)
EXTENDS Skeleton, Sync, SyncTasks

VARIABLE part

mcVars == <<part, syncVars, vars, taskVars>>

MCLists == [p |-> {<<1, 2>>, <<>>}, q |-> {<<1, 2>>, <<1, 3>>}, r |-> {<<1, 3>>, <<9>>}]

\* Bound: a synchronisation that has ended, or that stalls with no retry left, is followed no
\* further: its properties hold from there on.
Followed == phase # "done" /\ ~(stalled /\ retries = 1)

InSync(A)     == part = "sync"     /\ Followed /\ A /\ UNCHANGED <<part, vars, taskVars>>
InSkeleton(A) == part = "skeleton" /\ A /\ UNCHANGED <<part, syncVars, taskVars>>
InTasks(A)    == part = "tasks"    /\ A /\ UNCHANGED <<part, syncVars, vars>>

\* The parts that do not run stay as they begin.
MCInit ==
    /\ part \in {"sync", "skeleton", "tasks"}
    /\ SyncInit /\ Init
    /\ part # "sync" => faults = 0
    /\ IF part = "tasks" THEN TasksInit
       ELSE points = <<>> /\ chunks = <<>> /\ tasks = <<>> /\ deleted = {} /\ done = FALSE

MCNext ==
    \/ InSync(SyncNext)
    \/ InSkeleton(Next)
    \/ InTasks(TasksNext)

\* As in Sync and Skeleton, of the part that runs.
MCFairness ==
    /\ \A old \in BOOLEAN : WF_mcVars(InSync(RunTasks(old)))
    /\ \A t \in Ids : WF_mcVars(InSync(Job(t)))
    /\ WF_mcVars(InSync(ReadLoop)) /\ WF_mcVars(InSync(Worker))
    /\ WF_mcVars(InSync(DownloadLoop)) /\ WF_mcVars(InSync(Start))
    /\ WF_mcVars(InSkeleton(Ask)) /\ WF_mcVars(InSkeleton(\E mid \in pending : Timeout(mid)))

MCSpec == MCInit /\ [][MCNext]_mcVars /\ MCFairness
----------------------------------------------------------------------------
\* A synchronisation that loses no segment reaches the height of its peer.
SyncPartCompletes == (part = "sync") => SyncCompletes
=============================================================================
