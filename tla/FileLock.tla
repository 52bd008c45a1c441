------------------------------ MODULE FileLock ------------------------------
(***************************************************************************)
(* The lock files that serialise changes of one JSON file among several    *)
(* processes of the program: withFileLock (electron/fileLock.cjs), and the *)
(* simpler lock of the goals (electron/goalStore.cjs, mutate), which never *)
(* removes a lock it finds.  One step is one call of the file system.      *)
(*                                                                         *)
(* A call is one transaction: lock, read the file, write it back, unlock.  *)
(* A call that is refused may be tried again.  The code is synchronous, so *)
(* a process carries out one call at a time.  The file is abstracted to    *)
(* the set of calls whose update it contains.                              *)
(***************************************************************************)
EXTENDS Naturals, FiniteSets

CONSTANTS
  Transactions,  (* calls of withFileLock or mutate, one each               *)
  Procs,
  ProcOf         (* the process that makes each call                        *)

NoOwner == "nobody"

ASSUME FileLockAssumption ==
  /\ NoOwner \notin Transactions
  /\ ProcOf \in [Transactions -> Procs]

VARIABLES
  reclaims, (* whether the file is under withFileLock or under mutate of    *)
            (* the goal store: either from the beginning                    *)
  lock,     (* the lock file: who created it, whether its text is complete, *)
            (* and whether it is older than STALE_LOCK_MS                   *)
  alive,    (* the processes that run                                       *)
  pc,       (* the next step of each call                                   *)
  data,     (* the file: the updates it contains                            *)
  copy      (* what each call has read of it                                *)

fileVars == <<reclaims, lock, alive, pc, data, copy>>

NoLock == [by |-> NoOwner, written |-> FALSE, old |-> FALSE]

New(c) == [by |-> c, written |-> FALSE, old |-> FALSE]

Critical == {"load", "save"}

Steps == Critical \cup
  {"stat", "owner", "unlink", "again", "write", "check", "release"}

InProgress(c) == pc[c] \in Steps

Goto(c, step) == pc' = [pc EXCEPT ![c] = step]

-----------------------------------------------------------------------------
FileInit ==
  /\ reclaims \in BOOLEAN
  /\ lock = NoLock
  /\ alive = Procs
  /\ pc = [c \in Transactions |-> "idle"]
  /\ data = {}
  /\ copy = [c \in Transactions |-> {}]

(* What follows the exclusive creation of the lock file.                    *)
Create(c) ==
  /\ lock' = New(c)
  /\ Goto(c, IF reclaims THEN "write" ELSE "load")

MayBegin(c) ==
  /\ pc[c] \in {"idle", "locked"}
  /\ ProcOf[c] \in alive
  /\ \A d \in Transactions : InProgress(d) => ProcOf[d] # ProcOf[c]

BeginAndRelease(c) ==           \* mutant: the finally covers the open as well
  /\ MayBegin(c)
  /\ \/ lock = NoLock /\ Create(c)
     \/ lock # NoLock /\ Goto(c, "release") /\ UNCHANGED lock
  /\ UNCHANGED <<reclaims, alive, data, copy>>

(* openSync(lockPath, 'wx').                                                *)
Begin(c) ==
  /\ MayBegin(c)
  /\ \/ lock = NoLock /\ Create(c)
     \/ lock # NoLock /\ Goto(c, IF reclaims THEN "stat" ELSE "locked") /\ UNCHANGED lock
  /\ UNCHANGED <<reclaims, alive, data, copy>>

StatBusy(c) ==                  \* mutant: a lock that exists is never stale
  /\ pc[c] = "stat"
  /\ Goto(c, IF lock = NoLock THEN "unlink" ELSE "locked")
  /\ UNCHANGED <<reclaims, lock, alive, data, copy>>

(* staleLock(): a lock that is gone counts as stale, a young one does not.  *)
Stat(c) ==
  /\ pc[c] = "stat"
  /\ Goto(c, IF lock = NoLock THEN "unlink" ELSE IF lock.old THEN "owner" ELSE "locked")
  /\ UNCHANGED <<reclaims, lock, alive, data, copy>>

(* staleLock(): the owner named in the lock file must be dead; a file that  *)
(* cannot be read or parsed has no owner.                                   *)
Owner(c) ==
  /\ pc[c] = "owner"
  /\ Goto(c, IF lock.written /\ ProcOf[lock.by] \in alive THEN "locked" ELSE "unlink")
  /\ UNCHANGED <<reclaims, lock, alive, data, copy>>

(* The stale lock is removed by its path, whatever is there by now.         *)
Unlink(c) ==
  /\ pc[c] = "unlink"
  /\ lock' = NoLock
  /\ Goto(c, "again")
  /\ UNCHANGED <<reclaims, alive, data, copy>>

(* The second openSync(lockPath, 'wx').                                     *)
Again(c) ==
  /\ pc[c] = "again"
  /\ \/ lock = NoLock /\ Create(c)
     \/ lock # NoLock /\ Goto(c, "locked") /\ UNCHANGED lock
  /\ UNCHANGED <<reclaims, alive, data, copy>>

(* The owner is written through the descriptor: when the lock file has been *)
(* replaced meanwhile, not into the one that is there.                      *)
Write(c) ==
  /\ pc[c] = "write"
  /\ lock' = [lock EXCEPT !.written = @ \/ lock.by = c]
  /\ Goto(c, "load")
  /\ UNCHANGED <<reclaims, alive, data, copy>>

LoadCached(c) ==                \* mutant: a process reads the file only once
  LET earlier == {d \in Transactions : ProcOf[d] = ProcOf[c] /\ pc[d] = "done" /\ d \in data}
  IN /\ pc[c] = "load"
     /\ copy' = [copy EXCEPT ![c] = IF earlier = {} THEN data
                                   ELSE UNION {copy[d] : d \in earlier} \cup earlier]
     /\ Goto(c, "save")
     /\ UNCHANGED <<reclaims, lock, alive, data>>

(* The callback reads the file ...                                          *)
Load(c) ==
  /\ pc[c] = "load"
  /\ copy' = [copy EXCEPT ![c] = data]
  /\ Goto(c, "save")
  /\ UNCHANGED <<reclaims, lock, alive, data>>

Finally == IF reclaims THEN "check" ELSE "release"

(* ... and replaces it.                                                     *)
Save(c) ==
  /\ pc[c] = "save"
  /\ data' = copy[c] \cup {c}
  /\ Goto(c, Finally)
  /\ UNCHANGED <<reclaims, lock, alive, copy>>

FailAndLeave(c) ==              \* mutant: no clean-up after an exception
  /\ pc[c] \in {"write", "load", "save"}
  /\ Goto(c, "done")
  /\ UNCHANGED <<reclaims, lock, alive, data, copy>>

(* Writing the owner or the callback throws.                                *)
Fail(c) ==
  /\ pc[c] \in {"write", "load", "save"}
  /\ Goto(c, Finally)
  /\ UNCHANGED <<reclaims, lock, alive, data, copy>>

(* finally: only a lock file with the token of this call is removed.        *)
Check(c) ==
  /\ pc[c] = "check"
  /\ Goto(c, IF lock.by = c /\ lock.written THEN "release" ELSE "done")
  /\ UNCHANGED <<reclaims, lock, alive, data, copy>>

RemoveLock(c) ==
  /\ pc[c] = "release"
  /\ lock' = NoLock
  /\ Goto(c, "done")
  /\ UNCHANGED <<reclaims, alive, data, copy>>

Crash(p) ==
  /\ p \in alive
  /\ alive' = alive \ {p}
  /\ pc' = [c \in Transactions |-> IF ProcOf[c] = p /\ InProgress(c) THEN "dead" ELSE pc[c]]
  /\ UNCHANGED <<reclaims, lock, data, copy>>

(* STALE_LOCK_MS passes.  A process is taken to need less than that from    *)
(* the creation of the lock file to the end of the write of its owner.      *)
Age ==
  /\ lock # NoLock /\ ~lock.old
  /\ pc[lock.by] # "write"
  /\ lock' = [lock EXCEPT !.old = TRUE]
  /\ UNCHANGED <<reclaims, alive, pc, data, copy>>

Step(c) ==
  \/ Begin(c) \/ Stat(c) \/ Owner(c) \/ Unlink(c) \/ Again(c) \/ Write(c)
  \/ Load(c) \/ Save(c) \/ Check(c) \/ RemoveLock(c)

FileNext ==
  \/ \E c \in Transactions : Step(c) \/ Fail(c)
  \/ \E p \in Procs : Crash(p)
  \/ Age

(* Processes go on while they live, refused calls are tried again, and time *)
(* passes.                                                                  *)
FileFairness ==
  /\ WF_fileVars(Age)
  /\ \A c \in Transactions : WF_fileVars(pc[c] # "idle" /\ Step(c))

FileSpec == FileInit /\ [][FileNext]_fileVars
FairFileSpec == FileSpec /\ FileFairness

-----------------------------------------------------------------------------
FileTypeOK ==
  /\ reclaims \in BOOLEAN
  /\ lock \in [by : Transactions, written : BOOLEAN, old : BOOLEAN] \cup {NoLock}
  /\ alive \subseteq Procs
  /\ pc \in [Transactions -> Steps \cup {"idle", "locked", "done", "dead"}]
  /\ data \subseteq Transactions
  /\ copy \in [Transactions -> SUBSET Transactions]

(* No two transactions on the file overlap ("if another process is writing, *)
(* the caller receives MEMORY_LOCKED", fileLock.cjs:41).  withFileLock      *)
(* breaks it when a third call takes the lock between the judgement of      *)
(* another, that it is stale or gone, and its unlink.                       *)
MutualExclusion ==
  \A c, d \in Transactions : pc[c] \in Critical /\ pc[d] \in Critical => c = d

(* No two changes of the goals overlap (goalStore.cjs, mutate): its lock    *)
(* file is removed by nobody but its creator, failures and crashes included.*)
GoalsExclude == ~reclaims => MutualExclusion

(* A change of the goals that has been written is not undone by another     *)
(* that had read the file before: what the lock is there for.               *)
NoGoalLost == [][~reclaims => data \subseteq data']_fileVars

(* A call that returned, or failed in its callback, leaves no lock of its   *)
(* own behind for the others to wait out.                                   *)
NothingLeftBehind ==
  \A c \in Transactions : lock.by = c /\ lock.written => InProgress(c) \/ pc[c] = "dead"

(* The lock file is there for as long as its transaction, or the crash of   *)
(* its process, accounts for it.                                            *)
LockAccounted == FileTypeOK /\ NothingLeftBehind

(* Whoever is refused and tries again gets through in the end, even past    *)
(* the lock of a crashed process or one that could not be written.  The     *)
(* lock that a crash leaves on the goals stays.                             *)
RetryGetsThrough ==
  \A c \in Transactions :
    reclaims /\ pc[c] = "locked"
      ~> (pc[c] \in {"done", "dead"} \/ ProcOf[c] \notin alive)
=============================================================================
