---------------------------- MODULE ResultReview ----------------------------
(***************************************************************************)
(* The review of what sub-agents report (electron/subagents.cjs): a result *)
(* is a candidate until the parent confirms it, only a confirmed result is *)
(* handed to tasks that depend on it, code of an isolated worktree is      *)
(* merged before it is confirmed, and a result that is retracted, redone   *)
(* or no longer true takes along everything that rests on it.              *)
(*                                                                         *)
(* The parent agent calls one tool at a time, but review_subagent_result   *)
(* has the registry's time limit (tools/descriptor.cjs:144): after it the  *)
(* parent goes on while the handler still waits for the user or for git.   *)
(* A handler is synchronous between two awaits; the writes of such a part  *)
(* are kept in "writes" and reach the task views one after the other, so   *)
(* that a crash may come between any two of them.                          *)
(*                                                                         *)
(* A task is numbered in the order of its creation.  Every task has run    *)
(* once when the model begins.                                             *)
(***************************************************************************)
EXTENDS Naturals, FiniteSets, FiniteSetsExt

CONSTANTS
  N,             (* number of tasks                                         *)
  Deps,          (* dependsOnTaskIds of every task                          *)
  Isolated,      (* the tasks with changes in a worktree of their own       *)
  Reviews,       (* calls of confirm_and_merge that may be under way        *)
  MaxAttempts,   (* maxAttemptsPerTask                                      *)
  MaxRunAttempts,(* maxAttemptsPerRun                                       *)
  MaxEdits,      (* bound: changes of the evidence of results               *)
  MaxRestarts    (* bound: crashes                                          *)

Ids == 1..N

ASSUME ReviewAssumption ==
  /\ N \in Nat /\ MaxAttempts \in Nat \ {0} /\ MaxRunAttempts \in Nat
  /\ MaxEdits \in Nat /\ MaxRestarts \in Nat
  /\ Deps \in [Ids -> SUBSET Ids]
  /\ \A t \in Ids : \A d \in Deps[t] : d < t
  /\ Isolated \subseteq Ids
  /\ "nobody" \notin Reviews

VARIABLES
  result,    (* tasks of the manager: phase, attempt and review             *)
  saved,     (* the same in <run>.subagents.json                            *)
  writes,    (* writes of the present synchronous part that are to come     *)
  current,   (* whether the evidence of a result still is what it says      *)
  wt,        (* the changes of a worktree: "pending" or "clean" as they     *)
             (* were when the attempt ended, "moved" if it has other commits*)
  merges,    (* how often reviews of the last attempt merged its changes    *)
  head,      (* HEAD of the main worktree: the number of merges             *)
  call,      (* the calls of confirm_and_merge                              *)
  waiting,   (* the review that the parent agent waits for                  *)
  rerun,     (* the task of the retry the parent waits for, or 0            *)
  edits, restarts,
  lapses     (* what has happened that a later mistake may come from        *)

reviewVars == <<result, saved, writes, current, wt, merges, head, call, waiting, rerun,
                edits, restarts, lapses>>

git == <<wt, merges, head>>
env == <<current, edits, restarts>>

Nobody == "nobody"

Review(st, by, merged) == [st |-> st, by |-> by, merged |-> merged]

NoCall == [task |-> 0, step |-> "idle", attempt |-> 0, head |-> 0,
           prev |-> Review("none", 0, FALSE)]

-----------------------------------------------------------------------------
(* Propagation.                                                             *)

WithReview(tk, t, rv) == [tk EXCEPT ![t].rev = rv]

(* The task object that delegate() makes for a queued attempt has no edges. *)
Rests(tk, t, d) == d \in Deps[t] /\ tk[t].phase \in {"running", "done"}

Within(tk, r) ==
  LET f[n \in 0..N] ==
        IF n = 0 THEN {r}
        ELSE f[n - 1] \cup {t \in Ids : \E d \in f[n - 1] : Rests(tk, t, d)}
  IN  f

Down(tk, r) == Within(tk, r)[N] \ {r}

Distance(tk, r, t) ==
  LET f == Within(tk, r) IN Min({n \in 0..N : t \in f[n]} \cup {N})

InvalidateFirst(tk, r) ==           \* mutant: only the direct dependents
  [t \in Ids |->
     IF Rests(tk, t, r) /\ tk[t].rev.st # "retracted"
     THEN [tk[t] EXCEPT !.rev.st = "needs_recheck", !.rev.by = r] ELSE tk[t]]

Invalidate(tk, r) ==
  LET down == Down(tk, r) IN
  [t \in Ids |->
     IF t \in down /\ tk[t].rev.st # "retracted"
     THEN [tk[t] EXCEPT !.rev.st = "needs_recheck", !.rev.by = r] ELSE tk[t]]

MarkNeedsRecheck(tk, t) ==
  IF tk[t].rev.st = "retracted" THEN tk
  ELSE Invalidate([tk EXCEPT ![t].rev.st = "needs_recheck", ![t].rev.by = t], t)

(* The writes of a propagation from r: r first, then by distance.           *)
ViewWrite(t, rec, rank) == [task |-> t, rec |-> rec, rank |-> rank]

Changed(tk, r) == {ViewWrite(t, tk[t], Distance(result, r, t)) : t \in {u \in Ids : tk[u] # result[u]}}

Becomes(tk, r) == result' = tk /\ writes' = Changed(tk, r)

(* hydrateTasks: retracted tasks, and those that were marked on their own   *)
(* account, invalidate what rests on them, in the order of creation.        *)
HydrateTasks(tk) ==
  LET Gone(t) == tk[t].rev.st = "retracted"
      Self(t) == tk[t].rev.st = "needs_recheck" /\ tk[t].rev.by = t
      down == [u \in {v \in Ids : Gone(v) \/ Self(v)} |-> Down(tk, u)]
      Above(t) == {u \in DOMAIN down : t \in down[u]}
      Root(t) == Gone(t) \/ Above(t) = {}
      Roots(t) == {u \in Above(t) : Root(u)}
  IN  [t \in Ids |->
         IF Roots(t) # {} /\ ~Gone(t)
         THEN [tk[t] EXCEPT !.rev.st = "needs_recheck", !.rev.by = Max(Roots(t))] ELSE tk[t]]

-----------------------------------------------------------------------------
(* What the checks of a review look at.                                     *)

Quiet == writes = {}

Free == Quiet /\ waiting = Nobody /\ rerun = 0

IsConfirmed(rec, t) ==
  /\ rec.phase = "done" /\ rec.rev.st = "confirmed"
  /\ t \in Isolated => rec.rev.merged

Shareable(t) == IsConfirmed(result[t], t) /\ current[t]

DepsShareable(t) == \A d \in Deps[t] : Shareable(d)

FirstBad(t) == Min({d \in Deps[t] : ~Shareable(d)})

(* confirmedSources: a confirmed dependency that is no longer true is marked.*)
MarkBadDep(t) ==
  IF IsConfirmed(result[FirstBad(t)], FirstBad(t)) THEN MarkNeedsRecheck(result, FirstBad(t)) ELSE result

ReviewableAgain(t) ==               \* mutant: a retracted result is looked at again
  result[t].phase = "done" /\ result[t].rev.st \notin {"integrating", "confirmed"}

Reviewable(t) ==
  result[t].phase = "done" /\ result[t].rev.st \notin {"integrating", "confirmed", "retracted"}

-----------------------------------------------------------------------------
ReviewInit ==
  /\ result = [t \in Ids |-> [phase |-> "done", attempt |-> 1, rev |-> Review("candidate", 0, FALSE)]]
  /\ saved = result
  /\ writes = {}
  /\ current = [t \in Ids |-> TRUE]
  /\ wt = [t \in Ids |-> IF t \in Isolated THEN "pending" ELSE "clean"]
  /\ merges = [t \in Ids |-> 0]
  /\ head = 0
  /\ call = [h \in Reviews |-> NoCall]
  /\ waiting = Nobody
  /\ rerun = 0
  /\ edits = 0 /\ restarts = 0
  /\ lapses = {}

(* get_subagent_task, merge_subagent_results and a repeated confirmation    *)
(* check the evidence and mark a result that is no longer true.             *)
Look(t) ==
  /\ Free
  /\ result[t].phase = "done" /\ ~current[t]
  /\ Becomes(MarkNeedsRecheck(result, t), t)
  /\ UNCHANGED <<saved, git, env, call, waiting, rerun, lapses>>

(* A confirmation, with or without a merge, that a check turns down.        *)
ConfirmRefused(t) ==
  /\ Free
  /\ Reviewable(t)
  /\ IF DepsShareable(t)
     THEN /\ ~current[t] \/ wt[t] = "moved"
          /\ Becomes(MarkNeedsRecheck(result, t), t)
     ELSE Becomes(MarkNeedsRecheck(MarkBadDep(t), t), FirstBad(t))
  /\ UNCHANGED <<saved, git, env, call, waiting, rerun, lapses>>

ConfirmUnmerged(t) ==               \* mutant: isolated code needs no merge
  /\ Free /\ Reviewable(t) /\ DepsShareable(t) /\ current[t]
  /\ Becomes(WithReview(result, t, Review("confirmed", 0, FALSE)), t)
  /\ UNCHANGED <<saved, git, env, call, waiting, rerun, lapses>>

Confirm(t) ==
  /\ Free /\ Reviewable(t) /\ DepsShareable(t) /\ current[t]
  /\ t \notin Isolated
  /\ Becomes(WithReview(result, t, Review("confirmed", 0, FALSE)), t)
  /\ UNCHANGED <<saved, git, env, call, waiting, rerun, lapses>>

Retract(t) ==
  /\ Free
  /\ result[t].phase = "done" /\ result[t].rev.st # "retracted"
  /\ Becomes(Invalidate(WithReview(result, t, Review("retracted", 0, FALSE)), t), t)
  /\ UNCHANGED <<saved, git, env, call, waiting, rerun, lapses>>

-----------------------------------------------------------------------------
(* confirm_and_merge.                                                       *)

AskMerge(h, t) ==
  /\ Free
  /\ Reviewable(t) /\ DepsShareable(t) /\ current[t]
  /\ t \in Isolated /\ wt[t] # "moved"
  /\ call[h] = NoCall
  /\ call' = [call EXCEPT ![h] = [task |-> t, step |-> "asking", attempt |-> result[t].attempt,
                                  head |-> head, prev |-> result[t].rev]]
  /\ waiting' = h
  /\ UNCHANGED <<result, saved, writes, git, env, rerun, lapses>>

(* The time limit of the tool: the parent goes on without the answer.       *)
TimeOut(h) ==
  /\ Quiet /\ waiting = h
  /\ waiting' = Nobody
  /\ UNCHANGED <<result, saved, writes, git, env, call, rerun, lapses>>

(* The handler holds the task object it began with; after a retry it is no  *)
(* longer the one of the manager, but it is still written to the views.     *)
Sets(h, rv, isSaved) ==
  LET t == call[h].task
      rec == [phase |-> "done", attempt |-> call[h].attempt, rev |-> rv]
  IN  /\ result' = IF result[t].attempt = call[h].attempt THEN [result EXCEPT ![t] = rec] ELSE result
      /\ writes' = IF isSaved THEN {ViewWrite(t, rec, 0)} ELSE {}
      /\ lapses' = IF waiting = h THEN lapses ELSE lapses \cup {"late"}

Goto(h, step) == call' = [call EXCEPT ![h].step = step] /\ UNCHANGED waiting

Ends(h) == call' = [call EXCEPT ![h] = NoCall] /\ waiting' = IF waiting = h THEN Nobody ELSE waiting

(* The user's answer; the intent to merge must be on disk first.            *)
Answer(h) ==
  /\ Quiet /\ call[h].step = "asking"
  /\ \/ Ends(h) /\ UNCHANGED <<result, writes, lapses>>
     \/ Sets(h, Review("integrating", 0, FALSE), TRUE) /\ Goto(h, "checking")
     \/ Sets(h, call[h].prev, FALSE) /\ Ends(h)
  /\ UNCHANGED <<saved, git, env, rerun>>

(* mergeWorktree looks again and commits what is pending.                   *)
MergeCheck(h) ==
  LET t == call[h].task IN
  /\ Quiet /\ call[h].step = "checking"
  /\ head = call[h].head
  /\ wt[t] = "pending" \/ (wt[t] = "clean" /\ merges[t] = 0)
  /\ wt' = [wt EXCEPT ![t] = IF wt[t] = "pending" THEN "moved" ELSE wt[t]]
  /\ Goto(h, "merging")
  /\ UNCHANGED <<result, saved, writes, merges, head, env, rerun, lapses>>

Merge(h) ==
  LET t == call[h].task IN
  /\ Quiet /\ call[h].step = "merging"
  /\ head = call[h].head
  /\ merges' = [merges EXCEPT ![t] = IF result[t].attempt = call[h].attempt THEN @ + 1 ELSE @]
  /\ head' = head + 1
  /\ Goto(h, "merged")
  /\ UNCHANGED <<result, saved, writes, wt, env, rerun, lapses>>

(* Any of the checks of mergeWorktree, a conflict or git itself; the code   *)
(* calls a conflict conflict_blocked and treats it like a candidate.        *)
MergeFails(h) ==
  /\ Quiet /\ call[h].step \in {"checking", "merging"}
  /\ \E isSaved \in BOOLEAN : Sets(h, Review("candidate", 0, FALSE), isSaved)
  /\ Ends(h)
  /\ UNCHANGED <<saved, git, env, rerun>>

Merged(h) ==
  LET t == call[h].task IN
  /\ Quiet /\ call[h].step = "merged"
  /\ IF current[t]
     THEN Sets(h, Review("confirmed", 0, TRUE), TRUE) \/ Sets(h, Review("integrating", 0, TRUE), FALSE)
     ELSE \E isSaved \in BOOLEAN : Sets(h, Review("needs_recheck", t, TRUE), isSaved)
  /\ Ends(h)
  /\ UNCHANGED <<saved, git, env, rerun>>

-----------------------------------------------------------------------------
(* retry_subagent_task.                                                     *)

AttemptsUsed == Cardinality({x \in Ids \X (1..MaxAttempts) : x[2] <= result[x[1]].attempt})

InspectRetry(t) ==
  /\ Free
  /\ result[t].phase \in {"done", "failed"}
  /\ ~result[t].rev.merged
  /\ result[t].attempt < MaxAttempts /\ AttemptsUsed < MaxRunAttempts
  /\ DepsShareable(t)
  /\ \A u \in Down(result, t) : result[u].phase # "running"
  /\ rerun' = t
  /\ UNCHANGED <<result, saved, writes, git, env, call, waiting, lapses>>

(* A refusal, a lease that is taken, a plan that no longer holds.           *)
RetryRefused ==
  /\ Quiet /\ rerun # 0 /\ result[rerun].phase \in {"done", "failed"}
  /\ rerun' = 0
  /\ UNCHANGED <<result, saved, writes, git, env, call, waiting, lapses>>

TakenBack(t) == WithReview(Invalidate(result, t), t, Review("retracted", 0, FALSE))

QueuedAgain(t) == [phase |-> "queued", attempt |-> result[t].attempt + 1, rev |-> Review("none", 0, FALSE)]

(* What rests on the task is marked first, then the task is retracted, its  *)
(* files are restored and the new attempt is queued, unless the retraction  *)
(* cannot be saved or a file cannot be restored.                            *)
RetryGo ==
  /\ Quiet /\ rerun # 0 /\ result[rerun].phase \in {"done", "failed"}
  /\ LET tk == TakenBack(rerun)
         marks == {ViewWrite(u, tk[u], Distance(result, rerun, u)) : u \in {v \in Ids \ {rerun} : tk[v] # result[v]}}
         retraction == ViewWrite(rerun, tk[rerun], N + 1)
     IN  \/ /\ result' = tk /\ rerun' = 0
            /\ writes' = marks \cup {retraction}
         \/ /\ result' = [tk EXCEPT ![rerun] = QueuedAgain(rerun)] /\ UNCHANGED rerun
            /\ writes' = marks \cup {retraction, ViewWrite(rerun, QueuedAgain(rerun), N + 2)}
  /\ UNCHANGED <<saved, git, env, call, waiting, lapses>>

(* executeTask: the attempt starts, or its dependencies are not confirmed.  *)
ExecuteAgain ==
  /\ Quiet /\ rerun # 0 /\ result[rerun].phase = "queued"
  /\ IF DepsShareable(rerun)
     THEN /\ Becomes([result EXCEPT ![rerun].phase = "running", ![rerun].rev = Review("pending", 0, FALSE)], rerun)
          /\ UNCHANGED rerun
     ELSE /\ Becomes([MarkBadDep(rerun) EXCEPT ![rerun].phase = "failed"], FirstBad(rerun))
          /\ rerun' = 0
  /\ UNCHANGED <<saved, git, env, call, waiting, lapses>>

Finish ==
  /\ Quiet /\ rerun # 0 /\ result[rerun].phase = "running"
  /\ \/ /\ Becomes([result EXCEPT ![rerun].phase = "failed", ![rerun].rev = Review("none", 0, FALSE)], rerun)
        /\ UNCHANGED <<current, wt, merges>>
     \/ /\ Becomes([result EXCEPT ![rerun].phase = "done",
                      ![rerun].rev = IF @.st = "needs_recheck" THEN @ ELSE Review("candidate", 0, FALSE)], rerun)
        /\ current' = [current EXCEPT ![rerun] = TRUE]
        /\ \E s \in IF rerun \in Isolated THEN {"pending", "clean"} ELSE {"clean"} :
             wt' = [wt EXCEPT ![rerun] = s]
        /\ merges' = [merges EXCEPT ![rerun] = 0]
  /\ rerun' = 0
  /\ UNCHANGED <<saved, head, edits, restarts, call, waiting, lapses>>

-----------------------------------------------------------------------------
(* The views on disk, the world and crashes.                                 *)

Flush ==
  /\ \E w \in writes :
       /\ \A v \in writes : w.rank <= v.rank
       /\ saved' = [saved EXCEPT ![w.task] = w.rec]
       /\ writes' = writes \ {w}
  /\ UNCHANGED <<result, git, env, call, waiting, rerun, lapses>>

(* The write of a mark fails, and the error goes to the audit log only; or  *)
(* the retraction of a retry is not saved, and no new attempt is made.      *)
LoseWrite ==
  /\ lapses = {}
  /\ \E w \in writes :
       /\ \A v \in writes : w.rank <= v.rank
       /\ w.rec.rev.st = "needs_recheck" \/ (w.rank = N + 1 /\ writes = {w})
       /\ writes' = writes \ {w}
  /\ lapses' = lapses \cup {"lost"}
  /\ UNCHANGED <<result, saved, git, env, call, waiting, rerun>>

(* Somebody changes a file that a result cites, or changes it back.         *)
Edit(t) ==
  /\ edits < MaxEdits /\ Quiet
  /\ edits' = edits + 1
  /\ current' = [current EXCEPT ![t] = ~@]
  /\ UNCHANGED <<result, saved, writes, git, restarts, call, waiting, rerun, lapses>>

(* The process ends; the next one reads the views.  "cut": the marks of a   *)
(* retry were being written and the retraction was not there yet.           *)
CrashRehydrate ==
  /\ restarts < MaxRestarts
  /\ restarts' = restarts + 1
  /\ LET tk == HydrateTasks(saved)
     IN  result' = tk /\ writes' = {ViewWrite(t, tk[t], t) : t \in {u \in Ids : tk[u] # saved[u]}}
  /\ call' = [h \in Reviews |-> NoCall]
  /\ waiting' = Nobody
  /\ rerun' = 0
  /\ lapses' = IF \E w \in writes : w.rank = N + 1 THEN lapses \cup {"cut"} ELSE lapses
  /\ UNCHANGED <<saved, git, current, edits>>

ReviewNext ==
  \/ \E t \in Ids : Look(t) \/ ConfirmRefused(t) \/ Confirm(t) \/ Retract(t) \/ InspectRetry(t) \/ Edit(t)
  \/ \E h \in Reviews : \/ \E t \in Ids : AskMerge(h, t)
                        \/ TimeOut(h) \/ Answer(h) \/ MergeCheck(h) \/ Merge(h) \/ MergeFails(h) \/ Merged(h)
  \/ RetryRefused \/ RetryGo \/ ExecuteAgain \/ Finish
  \/ Flush \/ LoseWrite \/ CrashRehydrate

ReviewSpec == ReviewInit /\ [][ReviewNext]_reviewVars

-----------------------------------------------------------------------------
Recs == [phase : {"queued", "running", "done", "failed"}, attempt : 1..MaxAttempts,
         rev : [st : {"none", "pending", "candidate", "needs_recheck", "confirmed",
                      "retracted", "integrating"},
                by : 0..N, merged : BOOLEAN]]

(* The variables keep their types, and the parent waits for one thing.      *)
ReviewTypeOK ==
  /\ result \in [Ids -> Recs] /\ saved \in [Ids -> Recs]
  /\ writes \subseteq [task : Ids, rec : Recs, rank : 0..N + 2]
  /\ current \in [Ids -> BOOLEAN]
  /\ wt \in [Ids -> {"pending", "clean", "moved"}]
  /\ merges \in [Ids -> Nat] /\ head \in Nat
  /\ \A h \in Reviews : call[h].step \in {"idle", "asking", "checking", "merging", "merged"}
  /\ waiting \in Reviews \cup {Nobody} /\ rerun \in 0..N
  /\ waiting = Nobody \/ rerun = 0
  /\ lapses \subseteq {"late", "lost", "cut"}

Backed == \A t \in Ids : IsConfirmed(result[t], t) => \A d \in Deps[t] : IsConfirmed(result[d], d)

(* A confirmed result rests on confirmed results only, over any sequence of *)
(* reviews, retractions, retries and crashes, unless a review was answered   *)
(* after its time limit, a mark was not saved, or a retry was cut off.       *)
SharedIsBacked == lapses = {} => Backed

(* A confirmed result with isolated code has that code in the main worktree,*)
(* in memory and in the views (subagents.cjs:1176, :867).                   *)
ConfirmedCodeIsMerged ==
  \A t \in Isolated : \A rec \in {result[t], saved[t]} :
    rec.rev.st = "confirmed" =>
      /\ rec.rev.merged
      /\ rec.attempt = result[t].attempt /\ "late" \notin lapses => merges[t] > 0

(* The changes of an attempt are merged at most once, whatever the number   *)
(* of reviews under way, failed merges and crashes.                          *)
MergedOnce == \A t \in Ids : merges[t] <= 1

(* The books about merged code are true, whatever order reviews, their time *)
(* limits, retries, failures of git and crashes come in.                    *)
CodeAccounted == ReviewTypeOK /\ ConfirmedCodeIsMerged /\ MergedOnce

(* What was retracted stays retracted until there is another attempt, unless*)
(* a review is answered after its time limit.                               *)
RetractionStands ==
  [][\A t \in Ids : saved[t].rev.st = "retracted" =>
       \/ saved'[t].rev.st = "retracted"
       \/ saved'[t].attempt > saved[t].attempt
       \/ "late" \in lapses]_reviewVars

=============================================================================
