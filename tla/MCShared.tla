------------------------------ MODULE MCShared ------------------------------
(***************************************************************************)
(* One instance for the three small things that callers wait for: the      *)
(* slots of the sub-agents (SubagentScheduler), the model requests         *)
(* (RequestQueue) and the lock files (FileLock).  They have no state in    *)
(* common, so nothing is gained by interleaving them: only one of them     *)
(* moves at a time, while the others are in an initial state.  The         *)
(* behaviours of each are all there, and no others.                        *)
(***************************************************************************)
EXTENDS MCSubagentScheduler, MCRequestQueue, MCFileLock

SchedulerRests == Init /\ UNCHANGED vars
QueueRests == QueueInit /\ UNCHANGED queueVars
FileRests == FileInit /\ UNCHANGED fileVars

SharedInit == Init /\ QueueInit /\ FileInit

SharedNext ==
  \/ QueueRests /\ FileRests /\ Next
  \/ SchedulerRests /\ FileRests /\ QueueNext
  \/ SchedulerRests /\ QueueRests /\ FileNext

SharedSpec ==
  /\ SharedInit
  /\ [][SharedNext]_<<vars, queueVars, fileVars>>
  /\ Fairness /\ QueueFairness /\ FileFairness
=============================================================================
