------------------------------- MODULE Leases -------------------------------
(***************************************************************************)
(* The resource leases of one project (electron/tools/leases.cjs: class    *)
(* LeaseRegistry and createProjectRunLeases) together with the calls that  *)
(* are meant to be protected by them: the tools that write files           *)
(* (tools/registry.cjs, write_file, edit_file, bulk_edit) and the          *)
(* compensation of a failed sub-agent (subagents.cjs, retry).              *)
(*                                                                         *)
(* Each run of the project opens a scope, whose timer renews the leases of *)
(* the run every third of the time to live.  Time is counted in such       *)
(* thirds: a lease is as old as the thirds that have passed since it was   *)
(* granted or renewed, and has expired at the age of three.                *)
(*                                                                         *)
(* An agent is one holder (a task or the supervisor) of one run.  What a   *)
(* file holds is abstracted to who wrote it last and whether that agent    *)
(* put its own text there or restored an older one.                        *)
(***************************************************************************)
EXTENDS Naturals, FiniteSets

CONSTANTS
  Runs,          (* runs on the project                                     *)
  Agents,        (* lease holders: sub-agent tasks and supervisors          *)
  Supervisors,   (* the main agents among them                              *)
  RunOf,         (* the run of each agent                                   *)
  Files,
  Tools,         (* tools in use: "write_file" (and edit_file), "bulk_edit" *)
  MaxLate,       (* bound on calls that outlive their timeout               *)
  Stalls,        (* the process may be suspended past a renewal             *)
  Linked         (* files whose path is not canonical once it is resolved   *)

Nobody == "nobody"

ASSUME LeasesAssumption ==
  /\ Supervisors \subseteq Agents /\ Nobody \notin Agents
  /\ RunOf \in [Agents -> Runs]
  /\ Tools \subseteq {"write_file", "bulk_edit"}
  /\ MaxLate \in Nat /\ Stalls \in BOOLEAN
  /\ Linked \subseteq Files

VARIABLES
  lease,     (* registry.leases: what is held, by whom and since when       *)
  scope,     (* the scope of each run                                       *)
  due,       (* the renewal timer of the run has come due                   *)
  call,      (* what each agent is doing                                    *)
  late,      (* calls whose agent no longer waits for them                  *)
  content    (* the files                                                   *)

vars == <<lease, scope, due, call, late, content>>

Expired == 3

Keys == Files \X {"canonical", "resolved"}

Leased == [holder : Agents \cup {Nobody}, age : 0..Expired]

Free == [holder |-> Nobody, age |-> Expired]

Texts == [by : Agents \cup {Nobody}, old : BOOLEAN]

Original == [by |-> Nobody, old |-> TRUE]

(* What an agent does: nothing, one call of a writing tool, or its task is  *)
(* over.  seen is the snapshot a guarded tool took of its files.            *)
Doing(phase) == [phase |-> phase, tool |-> "none", files |-> {}, seen |-> <<>>]

Writing ==
  UNION {[phase : {"writing"}, tool : Tools, files : {fs}, seen : [fs -> Texts]] :
           fs \in SUBSET Files}

-----------------------------------------------------------------------------
(* holder(): the lease is in the map and has not expired.                   *)
Live(l) == l.age < Expired

(* sweep() on the leases of m.                                              *)
Swept(m) == [k \in Keys |-> IF Live(m[k]) THEN m[k] ELSE Free]

ConflictIfAllHeld(ks, a) ==     \* mutant: refused only if every key is held
  ks # {} /\ \A k \in ks : Live(lease[k]) /\ lease[k].holder # a

(* acquire(): all keys or none.                                             *)
Conflict(ks, a) == \E k \in ks : Live(lease[k]) /\ lease[k].holder # a

Granted(ks, a) ==
  [k \in Keys |-> IF k \in ks THEN [holder |-> a, age |-> 0] ELSE Swept(lease)[k]]

(* releaseAll(): everything the agents in who hold.                         *)
Without(m, who) ==
  [k \in Keys |-> IF m[k].holder \in who THEN Free ELSE m[k]]

(* resourceKeysFor(): bulk_edit names its files in `list`, which is not     *)
(* among the arguments looked at, so it has no keys.                        *)
KeysFor(tool, fs) ==
  IF tool = "bulk_edit" THEN {} ELSE {<<f, "canonical">> : f \in fs}

(* retry() builds its keys with path.resolve() alone: for a file behind a   *)
(* link, or on Windows with capitals in its path, that is another key than  *)
(* the one of canonicalPath().                                              *)
CompensationKeys(fs) ==
  {<<f, IF f \in Linked THEN "resolved" ELSE "canonical">> : f \in fs}

(* The versions a guarded tool starts from; bulk_edit looks at none.        *)
Snapshot(tool, fs) ==
  [f \in fs |-> IF tool = "bulk_edit" THEN Original ELSE content[f]]

(* The role that writes files for the supervisor has no bulk_edit.          *)
Uses(a, tool) == tool = "bulk_edit" => a \in Supervisors

-----------------------------------------------------------------------------
Init ==
  /\ lease = [k \in Keys |-> Free]
  /\ scope = [r \in Runs |-> "none"]
  /\ due = [r \in Runs |-> FALSE]
  /\ call = [a \in Agents |-> Doing("idle")]
  /\ late = {}
  /\ content = [f \in Files |-> Original]

(* createProjectRunLeases(): sweep the project's registry, register the     *)
(* scope, start its timer.                                                  *)
Open(r) ==
  /\ scope[r] = "none"
  /\ scope' = [scope EXCEPT ![r] = "open"]
  /\ lease' = Swept(lease)
  /\ UNCHANGED <<due, call, late, content>>

(* execute() of a tool that writes: claim its keys, then start the tool,    *)
(* which takes its snapshot before it asks for a confirmation.  A conflict  *)
(* answers RESOURCE_LOCKED and leaves only the sweep behind.                *)
Start(a, tool, fs) ==
  LET ks == KeysFor(tool, fs) IN
    /\ call[a].phase = "idle" /\ scope[RunOf[a]] = "open" /\ Uses(a, tool)
    /\ fs # {} /\ (tool = "write_file" => Cardinality(fs) = 1)
    /\ IF Conflict(ks, a)
       THEN /\ lease' = Swept(lease)
            /\ UNCHANGED call
       ELSE /\ lease' = IF ks = {} THEN lease ELSE Granted(ks, a)
            /\ call' = [call EXCEPT ![a] =
                 [phase |-> "writing", tool |-> tool, files |-> fs,
                  seen |-> Snapshot(tool, fs)]]
    /\ UNCHANGED <<scope, due, late, content>>

AfterUnguarded(a, c) ==         \* mutant: the second version check is gone
  [f \in Files |-> IF f \in c.files THEN [by |-> a, old |-> FALSE] ELSE content[f]]

(* What the tool writes once it is confirmed: write_file and edit_file only *)
(* over the version of their snapshot, bulk_edit over whatever is there.    *)
After(a, c) ==
  IF c.tool = "write_file" /\ \E f \in c.files : content[f] # c.seen[f]
  THEN content
  ELSE [f \in Files |-> IF f \in c.files THEN [by |-> a, old |-> FALSE]
                        ELSE content[f]]

(* The tool is confirmed and writes, or is not and does not.                *)
Finish(a) ==
  /\ call[a].phase = "writing"
  /\ content' \in {content, After(a, call[a])}
  /\ call' = [call EXCEPT ![a] = Doing("idle")]
  /\ UNCHANGED <<lease, scope, due, late>>

(* The registry stops waiting for a tool with a timeout; bulk_edit has none.*)
TimeOut(a) ==
  /\ Cardinality(late) < MaxLate
  /\ call[a].phase = "writing" /\ call[a].tool # "bulk_edit"
  /\ call' = [call EXCEPT ![a] = Doing("idle")]
  /\ late' = late \cup {<<a, call[a]>>}
  /\ UNCHANGED <<lease, scope, due, content>>

(* The confirmation of such a tool is answered after all.                   *)
LateFinish ==
  \E l \in late :
    /\ content' \in {content, After(l[1], l[2])}
    /\ late' = late \ {l}
    /\ UNCHANGED <<lease, scope, due, call>>

(* delegate() settles a sub-agent task.                                     *)
EndTask(a) ==
  /\ a \notin Supervisors
  /\ call[a].phase = "idle" /\ scope[RunOf[a]] = "open"
  /\ call' = [call EXCEPT ![a] = Doing("ended")]
  /\ lease' = Without(lease, {a})
  /\ UNCHANGED <<scope, due, late, content>>

(* retry() of a settled task: claim the files it wrote, put them back and   *)
(* start a new attempt, which keeps the keys.  When a file cannot be put    *)
(* back the keys are released and there is no new attempt.                  *)
Compensate(a, fs) ==
  LET ks == CompensationKeys(fs) IN
    /\ call[a].phase = "ended" /\ scope[RunOf[a]] = "open"
    /\ fs # {} /\ \A f \in fs : content[f] = [by |-> a, old |-> FALSE]
    /\ IF Conflict(ks, a)
       THEN /\ lease' = Swept(lease)
            /\ UNCHANGED <<call, content>>
       ELSE \E done \in SUBSET fs :
              /\ content' = [f \in Files |-> IF f \in done
                               THEN [by |-> a, old |-> TRUE] ELSE content[f]]
              /\ IF done = fs
                 THEN /\ lease' = Granted(ks, a)
                      /\ call' = [call EXCEPT ![a] = Doing("idle")]
                 ELSE /\ lease' = [k \in Keys |->
                                     IF k \in ks THEN Free ELSE Swept(lease)[k]]
                      /\ UNCHANGED call
    /\ UNCHANGED <<scope, due, late>>

(* The end of a run: every sub-agent has been awaited, the supervisor's     *)
(* leases are released and open confirmations are answered with no.         *)
EndRun(r) ==
  LET mine == {a \in Agents : RunOf[a] = r} IN
    /\ scope[r] = "open"
    /\ \A a \in mine : call[a].phase = (IF a \in Supervisors THEN "idle" ELSE "ended")
    /\ call' = [a \in Agents |-> IF a \in mine THEN Doing("ended") ELSE call[a]]
    /\ lease' = Without(lease, mine \cap Supervisors)
    /\ late' = {l \in late : l[1] \notin mine}
    /\ scope' = [scope EXCEPT ![r] = "ending"]
    /\ UNCHANGED <<due, content>>

(* dispose(): no more renewals.                                             *)
Dispose(r) ==
  /\ scope[r] = "ending"
  /\ scope' = [scope EXCEPT ![r] = "disposed"]
  /\ due' = [due EXCEPT ![r] = FALSE]
  /\ UNCHANGED <<lease, call, late, content>>

-----------------------------------------------------------------------------
HasTimer(r) == scope[r] \in {"open", "ending"}

RenewNothing(r) ==                 \* mutant: the timer fires but renews nothing
  /\ HasTimer(r) /\ due[r]
  /\ due' = [due EXCEPT ![r] = FALSE]
  /\ UNCHANGED <<lease, scope, call, late, content>>

(* The timer of a scope: every lease of the run, even one that expired but  *)
(* was not swept yet, is acquired again by its holder.                      *)
Renew(r) ==
  LET held == {k \in Keys : lease[k] # Free /\ RunOf[lease[k].holder] = r} IN
    /\ HasTimer(r) /\ due[r]
    /\ due' = [due EXCEPT ![r] = FALSE]
    /\ lease' = [k \in Keys |->
                   IF k \in held THEN [lease[k] EXCEPT !.age = 0]
                   ELSE IF held = {} THEN lease[k] ELSE Swept(lease)[k]]
    /\ UNCHANGED <<scope, call, late, content>>

(* A third of the time to live passes.  Unless the process is suspended,    *)
(* timers that are due fire first.                                          *)
Tick ==
  /\ Stalls \/ \A r \in Runs : HasTimer(r) => ~due[r]
  /\ lease' = [k \in Keys |->
                 IF Live(lease[k]) THEN [lease[k] EXCEPT !.age = @ + 1]
                 ELSE lease[k]]
  /\ due' = [r \in Runs |-> HasTimer(r)]
  /\ UNCHANGED <<scope, call, late, content>>

Next ==
  \/ \E r \in Runs : Open(r) \/ EndRun(r) \/ Dispose(r) \/ Renew(r)
  \/ \E a \in Agents : Finish(a) \/ TimeOut(a) \/ EndTask(a)
  \/ \E a \in Agents, fs \in SUBSET Files, tool \in Tools : Start(a, tool, fs)
  \/ \E a \in Agents, fs \in SUBSET Files : Compensate(a, fs)
  \/ LateFinish
  \/ Tick

Spec == Init /\ [][Next]_vars

-----------------------------------------------------------------------------
TypeOK ==
  /\ lease \in [Keys -> Leased \cup {Free}]
  /\ scope \in [Runs -> {"none", "open", "ending", "disposed"}]
  /\ due \in [Runs -> BOOLEAN]
  /\ call \in [Agents -> {Doing("idle"), Doing("ended")} \cup Writing]
  /\ late \subseteq Agents \X Writing
  /\ content \in [Files -> Texts]

HeldBy(f, a) ==
  LET l == lease[<<f, "canonical">>] IN Live(l) /\ l.holder = a

(* From the claim to the end of the call, across confirmations that take    *)
(* longer than the time to live, an agent that writes a file holds it.      *)
WritersHoldTheirFile ==
  \A a \in Agents :
    call[a].phase = "writing" /\ call[a].tool = "write_file" =>
      \A f \in call[a].files : HeldBy(f, a)

(* A run that is over leaves nothing locked for the others, whichever of    *)
(* its tasks failed, was compensated or started again.                      *)
NothingLeftLocked ==
  \A r \in Runs : scope[r] = "disposed" =>
    \A k \in Keys : lease[k] # Free => RunOf[lease[k].holder] # r

(* A file is held as long as it is needed and no longer: until the last     *)
(* write of a call, and not after the run.                                  *)
HeldWhileNeeded == TypeOK /\ WritersHoldTheirFile /\ NothingLeftLocked

Changed(f) == content'[f] # content[f]

(* A writer that asks for no lease of f, or for one under another name:     *)
(* bulk_edit, and the compensation of a task that is over.                  *)
Unleased(a, f) ==
  \/ call[a].tool = "bulk_edit"
  \/ f \in Linked /\ call[a].phase = "ended"

(* One writer at a time (leases.cjs:6), as far as the code keeps it: a file *)
(* that an agent holds is changed by that agent or by a writer that asked   *)
(* for no lease of it, and by nobody else of any run, calls that outlived   *)
(* their timeout aside.                                                     *)
OneWriter ==
  [][\A f \in Files : Changed(f) /\ late' = late =>
       \A a \in Agents : HeldBy(f, a) =>
         \/ content'[f].by = a
         \/ Unleased(content'[f].by, f)]_vars

(* Even if leases were lost, no edit wipes out a version that appeared      *)
(* after its own call began: the version check is the second line of        *)
(* defence, also for a call that outlived its timeout.  bulk_edit has none. *)
OverwritesWhatItSaw ==
  [][\A f \in Files : Changed(f) /\ ~content'[f].old =>
       \E l \in {<<a, call[a]>> : a \in Agents} \cup late :
         /\ l[1] = content'[f].by
         /\ f \in l[2].files
         /\ l[2].tool = "bulk_edit" \/ l[2].seen[f] = content[f]]_vars
=============================================================================
