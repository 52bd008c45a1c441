--------------------------- MODULE SideEffectLedger ---------------------------
(***************************************************************************)
(* The side-effect ledger of one run at work (electron/sideEffects.cjs,    *)
(* used by the tool loop of electron/agent.cjs and the registry).  The     *)
(* supervisor and its sub-agents share one ledger; each runs one tool call *)
(* at a time: begin, execute, then commit or fail.  The process may crash  *)
(* between any two of these, a save may fail, a timed-out tool may still   *)
(* write, and people edit the same files.                                  *)
(*                                                                         *)
(* begin(), commit() and fail() are synchronous, so each is one action     *)
(* with the save it ends in.  A restart is a resume of the same scope.     *)
(***************************************************************************)
EXTENDS LedgerRecords

CONSTANTS
  Actors,    (* agents that share the ledger                               *)
  Mutating,  (* operations whose descriptor is not readOnly, or mutates    *)
             (* the workspace: the registry reports their errors as        *)
             (* EFFECT_UNKNOWN                                             *)
  MaxEdits   (* bound on the number of file versions                       *)

ASSUME SideEffectAssumption ==
  /\ Mutating \subseteq Ops
  /\ MaxEdits \in Nat

VARIABLES
  up,            (* the process is running                                 *)
  mem,           (* this.records and this.beforeImages                     *)
  saved,         (* the ledger file                                        *)
  readable,      (* the ledger file parses                                 *)
  persistError,  (* this.persistError is set                               *)
  loadError,     (* this.loadError is set                                  *)
  hand,          (* the tool call each agent is in                         *)
  late,          (* timed-out operations whose tool is still running       *)
  files,         (* version of each file                                   *)
  edits,         (* versions made so far                                   *)
  outcome,       (* history: what became of the latest attempt             *)
  wiped          (* history: operations the run had asked for by the time  *)
                 (* a process that could not load the ledger replaced it   *)

ledger == <<mem, saved, readable, persistError, loadError, wiped>>
world == <<files, edits, late>>
vars == <<up, ledger, hand, world, outcome>>

Idle == [op |-> Missing, step |-> "idle"]

(* "ready": registered, about to run; "ran": returned success; "declined":  *)
(* failed without effect; "unsure": failed with EFFECT_UNKNOWN.             *)
Hands == {Idle} \cup [op : Ops, step : {"ready", "ran", "declined", "unsure"}]

Outcomes == {"none", "open", "done", "declined"}

(* Attempts that may have had an effect and are not accounted for.          *)
Doubt == {op \in Effectful : outcome[op] = "open"}

Put(a, op, step) == hand' = [hand EXCEPT ![a] = [op |-> op, step |-> step]]
Drop(a) == hand' = [hand EXCEPT ![a] = Idle]

-----------------------------------------------------------------------------
(* What replacing the ledger file takes from it: nothing when memory was    *)
(* loaded from it, everything so far when it could not be loaded.           *)
Wipes ==
  wiped' = IF loadError THEN wiped \cup {op \in Effectful : outcome[op] # "none"}
           ELSE wiped

PersistOnlyUnknown(effect) ==   \* mutant: writes are not saved either
  /\ IF effect # "unknown" THEN UNCHANGED <<saved, readable, persistError, wiped>>
     ELSE saved' = mem' /\ readable' = TRUE /\ persistError' = FALSE /\ Wipes
  /\ UNCHANGED loadError

(* _persist(effect) that works: the whole ledger replaces the file, except  *)
(* that read-only calls are not saved.  It does not look at loadError.      *)
Persist(effect) ==
  /\ IF effect = "read" THEN UNCHANGED <<saved, readable, persistError, wiped>>
     ELSE saved' = mem' /\ readable' = TRUE /\ persistError' = FALSE /\ Wipes
  /\ UNCHANGED loadError

(* _persist(effect) that throws; the old file stays.                        *)
PersistFails(effect) ==
  /\ effect # "read"
  /\ persistError' = TRUE
  /\ UNCHANGED <<saved, readable, loadError, wiped>>

RefusesUnlessLoaded(op) ==      \* mutant: loadError is not looked at
  \/ op \in Effectful /\ persistError
  \/ InDoubt(mem, op)

Refuses(op) ==
  \/ op \in Effectful /\ (loadError \/ persistError)
  \/ InDoubt(mem, op)

(* begin() answers skip; the record stays committed and is saved.           *)
BeginSkip(a, op) ==
  /\ up
  /\ hand[a] = Idle
  /\ ~Refuses(op)
  /\ Skips(mem, op, files)
  /\ UNCHANGED mem
  /\ Persist(Effect[op]) \/ PersistFails(Effect[op])
  /\ UNCHANGED <<up, hand, world, outcome>>

(* begin() registers the intent; the tool runs only if that was saved.      *)
Begin(a, op) ==
  /\ up
  /\ hand[a] = Idle
  /\ ~Refuses(op)
  /\ ~Skips(mem, op, files)
  /\ mem' = AfterIntent(mem, op, files)
  /\ \/ /\ Persist(Effect[op])
        /\ Put(a, op, "ready")
        /\ outcome' = [outcome EXCEPT ![op] = "open"]
     \/ /\ PersistFails(Effect[op])
        /\ UNCHANGED <<hand, outcome>>
  /\ UNCHANGED <<up, world>>

-----------------------------------------------------------------------------
(* The target of op gets a new version, if op writes a file.                *)
Writes(op) ==
  IF op \in FileWrites
  THEN /\ edits < MaxEdits
       /\ edits' = edits + 1
       /\ files' = [files EXCEPT ![Target[op]] = [by |-> op, at |-> edits + 1]]
  ELSE UNCHANGED <<files, edits>>

(* The tool returns success.                                                *)
RunSucceeds(a, op) ==
  /\ hand[a] = [op |-> op, step |-> "ready"]
  /\ Writes(op)
  /\ Put(a, op, "ran")
  /\ UNCHANGED <<up, ledger, late, outcome>>

(* The tool declines (bad arguments, resource locked, approval denied), or  *)
(* a call that only reads throws or times out.                              *)
RunDeclines(a, op) ==
  /\ hand[a] = [op |-> op, step |-> "ready"]
  /\ Put(a, op, "declined")
  /\ UNCHANGED <<up, ledger, world, outcome>>

(* The tool throws or its output is invalid, before or after its effect, or *)
(* it times out and goes on running.                                        *)
RunUnsure(a, op) ==
  /\ hand[a] = [op |-> op, step |-> "ready"]
  /\ op \in Mutating
  /\ \/ Writes(op) /\ UNCHANGED late
     \/ UNCHANGED <<files, edits, late>>
     \/ late' = late \cup {op} /\ UNCHANGED <<files, edits>>
  /\ Put(a, op, "unsure")
  /\ UNCHANGED <<up, ledger, outcome>>

(* A timed-out tool ends at last, with or without its effect.               *)
LateEnd(op) ==
  /\ op \in late
  /\ Writes(op) \/ UNCHANGED <<files, edits>>
  /\ late' = late \ {op}
  /\ UNCHANGED <<up, ledger, hand, outcome>>

-----------------------------------------------------------------------------
CommitIgnoresSave(a, op) ==     \* mutant: a failed save leaves "committed"
  /\ hand[a] = [op |-> op, step |-> "ran"]
  /\ mem' = AfterCommit(mem, op, files)
  /\ \/ Persist(Effect[op]) /\ outcome' = [outcome EXCEPT ![op] = "done"]
     \/ PersistFails(Effect[op]) /\ UNCHANGED outcome
  /\ Drop(a)
  /\ UNCHANGED <<up, world>>

(* commit(): when the save fails the record turns to "unknown".             *)
Commit(a, op) ==
  /\ hand[a] = [op |-> op, step |-> "ran"]
  /\ LET done == AfterCommit(mem, op, files) IN
     \/ /\ mem' = done
        /\ Persist(Effect[op])
        /\ outcome' = [outcome EXCEPT ![op] = "done"]
     \/ /\ mem' = AfterFail(done, op, "unknown")
        /\ PersistFails(Effect[op])
        /\ UNCHANGED outcome
  /\ Drop(a)
  /\ UNCHANGED <<up, world>>

(* fail() after a plain failure.                                            *)
FailPlain(a, op) ==
  /\ hand[a] = [op |-> op, step |-> "declined"]
  /\ mem' = AfterFail(mem, op, "failed")
  /\ Persist(Effect[op]) \/ PersistFails(Effect[op])
  /\ outcome' = [outcome EXCEPT ![op] = "declined"]
  /\ Drop(a)
  /\ UNCHANGED <<up, world>>

(* fail() after EFFECT_UNKNOWN; saved whatever the operation's class is, by *)
(* a process that could not load the ledger too.                            *)
FailUnknown(a, op) ==
  /\ hand[a] = [op |-> op, step |-> "unsure"]
  /\ mem' = AfterFail(mem, op, "unknown")
  /\ Persist("unknown") \/ PersistFails("unknown")
  /\ Drop(a)
  /\ UNCHANGED <<up, world, outcome>>

(* The agent was cancelled while the tool ran: the loop returns before it   *)
(* settles the call.                                                        *)
Abandon(a) ==
  /\ hand[a].step \in {"ran", "declined", "unsure"}
  /\ Drop(a)
  /\ UNCHANGED <<up, ledger, world, outcome>>

-----------------------------------------------------------------------------
(* Somebody else changes or deletes a file.  What a shell command does to   *)
(* files counts here.                                                       *)
Edit(p) ==
  /\ edits < MaxEdits
  /\ edits' = edits + 1
  /\ \E version \in {[by |-> Outside, at |-> edits + 1], Absent} :
       files' = [files EXCEPT ![p] = version]
  /\ UNCHANGED <<up, ledger, hand, late, outcome>>

(* The ledger file is damaged by something other than the program.          *)
Damage ==
  /\ readable
  /\ readable' = FALSE
  /\ UNCHANGED <<up, mem, saved, persistError, loadError, hand, world, outcome, wiped>>

Crash ==
  /\ up
  /\ up' = FALSE
  /\ mem' = EmptyJournal
  /\ persistError' = FALSE
  /\ loadError' = FALSE
  /\ hand' = [a \in Actors |-> Idle]
  /\ late' = {}
  /\ UNCHANGED <<saved, readable, files, edits, outcome, wiped>>

(* A new process loads the ledger of the scope (_load).                     *)
Restart ==
  /\ ~up
  /\ up' = TRUE
  /\ mem' = IF readable THEN saved ELSE EmptyJournal
  /\ loadError' = ~readable
  /\ UNCHANGED <<saved, readable, persistError, hand, world, outcome, wiped>>

Init ==
  /\ up = TRUE
  /\ mem = EmptyJournal
  /\ saved = EmptyJournal
  /\ readable = TRUE
  /\ persistError = FALSE
  /\ loadError = FALSE
  /\ hand = [a \in Actors |-> Idle]
  /\ late = {}
  /\ files \in [Paths -> {Absent, [by |-> Outside, at |-> 1]}]
  /\ edits = 1
  /\ outcome = [op \in Ops |-> "none"]
  /\ wiped = {}

Call(a, op) ==
  \/ BeginSkip(a, op)
  \/ Begin(a, op)
  \/ RunSucceeds(a, op)
  \/ RunDeclines(a, op)
  \/ RunUnsure(a, op)
  \/ Commit(a, op)
  \/ FailPlain(a, op)
  \/ FailUnknown(a, op)

Next ==
  \/ \E a \in Actors, op \in Ops : Call(a, op)
  \/ \E a \in Actors : Abandon(a)
  \/ \E op \in Ops : LateEnd(op)
  \/ \E p \in Paths : Edit(p)
  \/ Damage
  \/ Crash
  \/ Restart

Spec == Init /\ [][Next]_vars

-----------------------------------------------------------------------------
TypeOK ==
  /\ up \in BOOLEAN
  /\ mem \in Journals
  /\ saved \in Journals
  /\ readable \in BOOLEAN
  /\ persistError \in BOOLEAN
  /\ loadError \in BOOLEAN
  /\ hand \in [Actors -> Hands]
  /\ late \subseteq Ops
  /\ files \in [Paths -> Versions]
  /\ edits \in Nat
  /\ outcome \in [Ops -> Outcomes]
  /\ wiped \subseteq Ops

(* The process holds a ledger it could load.                                *)
Live == up /\ ~loadError

(* Write-ahead: whatever may have had an effect and is not accounted for is *)
(* marked pending or unknown in the file and in the memory of the process,  *)
(* at every moment, so that a crash at any point leaves the evidence        *)
(* (sideEffects.cjs:283-397), until a process that could not load the       *)
(* ledger has replaced it.                                                  *)
DoubtIsRecorded ==
  \A op \in Doubt \ wiped :
    /\ readable => saved.phase[op] \in {"pending", "unknown"}
    /\ Live => mem.phase[op] \in {"pending", "unknown"}

Executing(op) == {a \in Actors : hand[a].op = op /\ hand[a].step = "ready"}

(* Two executions of one operation with effects never overlap, whether two  *)
(* agents ask for it or the first one timed out and still runs.             *)
NeverTwoExecutions ==
  \A op \in Effectful :
    /\ \A a, b \in Executing(op) : a = b
    /\ op \in late => Executing(op) = {}

(* begin() answers skip only for a write whose latest attempt succeeded:    *)
(* the agent is never told that something is done which was not.            *)
SkipOnlyDone ==
  up => \A op \in Ops : Skips(mem, op, files) => outcome[op] = "done"

(* Authors a before-image may name: not the run, except for what it wrote   *)
(* before its ledger was replaced.                                          *)
Earlier == {Outside} \cup wiped

(* The before-images a rollback would restore are older than everything the *)
(* run wrote, and every file the run wrote has one (sideEffects.cjs:336).   *)
ImagesPredateRun ==
  \A p \in Paths :
    /\ readable => IF saved.image[p] = Missing
                   THEN files[p].by \in Earlier
                   ELSE saved.image[p].by \in Earlier
    /\ Live => IF mem.image[p] = Missing
               THEN files[p].by \in Earlier
               ELSE mem.image[p].by \in Earlier

Begins(a, op) == hand[a] = Idle /\ hand'[a] = [op |-> op, step |-> "ready"]

(* An operation in doubt is never executed again, through any number of     *)
(* crashes, resumes, failed saves and cancelled agents: "never replayed     *)
(* blindly" (docs/run-recovery.md).  Only what a replaced ledger no longer  *)
(* knows can be.                                                            *)
NoReplayInDoubt ==
  [][\A a \in Actors : \A op \in Doubt \ wiped : ~Begins(a, op)]_vars

(* A write that succeeded and whose file still holds what it wrote is not   *)
(* executed a second time: begin() answers skip, as long as the ledger      *)
(* knows of it.                                                             *)
StillStands(op) ==
  /\ op \in FileWrites \ wiped
  /\ outcome[op] = "done"
  /\ files[Target[op]].by = op

DoneIsNotRepeated ==
  [][\A a \in Actors, op \in Ops : StillStands(op) => ~Begins(a, op)]_vars
===============================================================================
