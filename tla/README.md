# Verification of CodeNode's run safety

CodeNode (the repository this directory belongs to) is a desktop coding agent.
Its main process, under `electron/`, runs an agent loop: a model proposes tool
calls, a registry executes them, and a *run* survives crashes, cancellations
and resumptions. What must not go wrong is not in the text it produces but in
the order of its steps: which tool call may run, when its effect is written
down, who may run beside whom, what a crash leaves behind, and what the next
process makes of it.

This directory holds TLA+ modules of those parts, TLC configurations that check
them on small instances, and proofs, checked by TLAPS, that hold for every size.

## 1. Inventory

Paths are relative to `src/electron/` of the checkout.

| Component | State it keeps | Operations | Talks to | Correct when |
| --- | --- | --- | --- | --- |
| Sub-agent scheduler `subagentScheduler.cjs` | queue, `active`, `writer` | `acquire`, abort, `drain`, release | delegate, retry | a writer is alone, slots are neither lost nor doubled, FIFO, no lost wake-up, everybody is served |
| Side-effect ledger `sideEffects.cjs` | records per idempotency key, before-images, load and save errors, one file per scope | `begin`, `commit`, `fail`, `review`, `recordsForRollback` | tool loop, sub-agents, resume plan, rollback | whatever may have happened is on disk before and until it is known; never repeated in doubt; skipped only when done |
| Tool loop `agent.cjs` | messages, counters, the current call | model turn, guard, execute, settle, checkpoint | registry, ledger, checkpoints, budgets | each call is settled exactly once or left in doubt |
| Tool registry `tools/registry.cjs`, `descriptor.cjs` | tools and their contracts | gates, execute with timeout, output validation | approvals, leases, tools | a failed call is called harmless only if it is |
| Tool context `tools/context.cjs` | signals, sinks, nested contexts | `confirm`, questions, `checkpoint`, guard | IPC, checkpoints | a wait that was not settled is visible after a crash |
| Checkpoints and resume plan `runCheckpoint.cjs` | an append-only log per run | intents, commits, waits, snapshots, `planResume`, time travel | event log, ledger, IPC | automatic only when nothing is open |
| Agent IPC `ipc/agent.cjs` | active requests and conversations | `agent:chat`, resume, stop, time travel | all of the above | a resumed run works on the evidence of the run it resumes |
| Run event log `runStore.cjs`, state machine `agentState.cjs` | events of each run, with rotation | start, finish, state, recover, retry | resume plan, UI | the summary of the log is the state of the run |
| Sub-agent life cycle `subagents.cjs` | tasks and counts, and their views on disk; reservations, timers, controllers | delegate, cancel, deadline, abort, retry, hydrate | scheduler, leases, attempts, ledger | quotas hold over crashes, one attempt of a task at a time, what may have been written is traced, every attempt ends |
| Review of results `subagents.cjs`, worktrees `worktree.cjs` | review state of each task, edges between tasks | confirm, confirm and merge, retract, re-check, retry | life cycle, git, the user | a confirmed result rests on confirmed ones and on merged code; what is retracted stays so |
| Attempt journals `subagentAttempts.cjs` | before-images per attempt | wrap, plan, compensate | delegate, ledger | a retry starts from the files the attempt found, or not at all |
| Rollback `runRollback.cjs` | none (reads the ledger) | plan, apply | ledger | never overwrites somebody else's change |
| Leases `tools/leases.cjs` | leases with expiry, per project | acquire, renew, release, dispose | registry, delegate | one writer per resource |
| Approvals `tools/approval.cjs` | one-shot tokens | request, verify, revoke | registry, UI | one approval pays for one call |
| Request queue `requestQueue.cjs`, steering `steerQueue.cjs` | waiting requests, limit | acquire, release, limit, abort; push, drain, close | model calls; UI | limit kept, nothing lost |
| Budgets `requestBudget.cjs`, `costBudget.cjs` | reservations up a parent chain | reserve, settle | model calls | never above the limit, nothing reserved for ever |
| Goals `goal*.cjs`, `ipc/agent.cjs`, `GoalAutoAdvanceManager.tsx` | `goals.json`, claims and live runs of the process, the dispatch in the window | plan, claim, dispatch, admit, settle, reconcile, review, start, stop | IPC, window, run log | one run per task, an allowance for going on alone, no re-run of what was cut off, a stop that holds, no claim for ever |
| File locks `fileLock.cjs`, `atomicFile.cjs` | lock files | lock, reclaim, release | memory, goals, sessions | one process inside |
| Parallel reads `tools/scheduler.cjs` | primed promises | prime | tool loop | reads start early, results stay in order |

The other parts (model protocol and streaming, event bus, metrics, memory,
plans, sandbox, retrieval, settings, window and UI) are listed in
`PROJECT.json` with the reason why they are not modelled.

**How they interact.** JavaScript runs one callback at a time, so a synchronous
method (`begin`, `commit`, `drain`, `acquire`, an append to a log) is atomic with
respect to the other agents of the process; what interleaves is what happens
between two `await`s, the timers, the abort signals and everything outside the
process. The shared state is the ledger (supervisor and sub-agents of a run),
the scheduler (sub-agents of a run), the leases (runs of a project), and the
files under `.codenode/runs/`, which outlive the process.

**Hard behaviours.** A crash between any two steps of a tool call; a save that
fails; a tool that is given up by a timeout and goes on running; a call that is
cancelled between its return and its settlement; two journals (checkpoints and
ledger) that are joined by the resume plan and may disagree; resuming a run
more than once; edits by people between the calls. `PROJECT.json` lists them as
hazards, each at its line, with the properties that would notice.

## 2. Modules

```
ReadersWriterLock ------------------------------------------.
      ^ refinement                                          | instance
SubagentScheduler  RequestQueue  FileLock  Leases       TaskLifecycle  ResultReview
   ^      ^          ^     ^      ^   ^     ^   ^         ^     ^        ^     ^
   MC   Proofs       MC  Proofs   MC  |     |   MC        MC    |        |     MC
   '------ MCShared -'------------'   LockProofs                TaskProofs

LedgerRecords (pure operators)
   ^              ^
SideEffectLedger  RunRecovery   Undo            Goals
   ^      ^         ^    ^      ^    ^          ^    ^
   MC   Proofs      MC Proofs   MC Proofs       MC Proofs
```

| Module | Models | Lines it stands for |
| --- | --- | --- |
| `SubagentScheduler` | the run-wide FIFO; one action per call, with the drain it ends in | `subagentScheduler.cjs` |
| `ReadersWriterLock` | the abstract lock the scheduler promises | what its callers rely on |
| `LedgerRecords` | what `begin`, `commit` and `fail` do to the records, as operators | `sideEffects.cjs:24-51, 99-170, 283-397` |
| `SideEffectLedger` | one ledger at work: agents that share it, saves, crashes, reloads, timeouts, edits | `sideEffects.cjs`, tool loop, registry |
| `RunRecovery` | the checkpoints and the ledger of a family of runs, the resume plan, resumed runs and branches | `runCheckpoint.cjs`, `ipc/agent.cjs:925-1004`, tool loop |
| `RequestQueue` | the process-wide queue of model requests with a limit that may change | `requestQueue.cjs` |
| `Leases` | the lease registry of a project, its renewal timers, and the tools and compensations that rely on it | `tools/leases.cjs`, writing tools, `subagents.cjs:1598-1627` |
| `FileLock` | lock files between processes, one file-system call per step | `fileLock.cjs`, `goalStore.cjs:24` |
| `TaskLifecycle` | delegated attempts that run side by side, their cancellation, deadline and retry, the task views, crashes | `subagents.cjs` (delegate, executeTask, cancel, retry, hydrate, persistTaskView) |
| `ResultReview` | what becomes of results: confirmation, merge, retraction, propagation to the tasks that rest on them | `subagents.cjs` (review, getShareableResult, invalidation), `worktree.cjs` |
| `Undo` | the attempt journal beside the ledger, compensation of an attempt, rollback of a run | `subagentAttempts.cjs`, `runRollback.cjs`, `sideEffects.cjs:431-447` |
| `Goals` | a goal that is carried out by itself: store, scheduler, window and user | `goalStore.cjs`, `goalExecution.cjs`, `goalScheduler.cjs`, `ipc/agent.cjs:300-420, 690-790`, `GoalAutoAdvanceManager.tsx` |
| `...Proofs` | theorems about the module of that name; `LockProofs` is about `Leases` and `FileLock`, `TaskProofs` about `TaskLifecycle` and `ResultReview` | |
| `MC...` | constants of the small instances; `DrainLoop`, the loop as written | |
| `MCShared` | one instance of `SubagentScheduler`, `RequestQueue` and `FileLock` | |

In a component module a definition marked *mutant* is not part of the model: it
is the bug that one of the properties is there to notice, next to the definition
it would replace.

### SubagentScheduler

`queue`, `active` and `writer` are the fields of the class. `call[t]` is the
fate of task `t`'s latest call: waiting, granted, released or rejected. In the
code that is the state of a promise. `Acquire`, `AcquireAborted`, `OnAbort`,
`Release` and `ReleaseAgain` are the five things a caller can do. The loop of
`drain()` is written in closed form: `Grants` is the number of entries it
serves, the first position at which it stops. `GrantsIsTheLoop` compares that
with the loop as the code has it.

### LedgerRecords and SideEffectLedger

An *operation* is an idempotency key: a tool with its canonical arguments. A
file is the version it holds, `[by, at]`: who wrote it last, and when. A
*journal* is the content of a ledger: the phase of each operation, the
fingerprint its commit recorded (`post`) and the before-image of each path.

`mem` is the ledger object, `saved` its file, `readable` whether that parses,
`persistError` and `loadError` the fields of the same name. `hand[a]` is the
call agent `a` is in, from `begin()` to its settlement. `late` holds
operations whose tool was given up by `_executeWithTimeout` and still runs.
`outcome` is a history variable, not in the code: `open` from the moment an
attempt may have had an effect until it is accounted for. `wiped` is another: what
the run had asked for when a process that could not load the ledger replaced the
file, which `_persist` does not forbid. Only a read whose outcome is unknown gets that
far, since `begin()` refuses the rest: that is `scan_project`, a read for the ledger
and a mutating tool for the registry (`Mutating`).

| Action | Code |
| --- | --- |
| `Begin`, `BeginSkip` | `begin()`, with the save it ends in, which works or throws |
| `RunSucceeds`, `RunDeclines`, `RunUnsure` | what the registry makes of a tool: success; a refusal by a gate or a plain error; EFFECT_UNKNOWN by a throw, invalid output or a timeout |
| `LateEnd` | a timed-out tool ends, with or without its effect |
| `Commit`, `FailPlain`, `FailUnknown` | `commit()` and `fail()` |
| `Abandon` | the tool loop sees the abort signal before it settles the call (`agent.cjs:3820`) |
| `Edit`, `Damage`, `Crash` | the world |
| `Restart` | a resume loads the ledger of the scope (`_load`) |

### RunRecovery

Here the calls are sequential, and the unit is the run. Each run has its event
log (`status`, as `summarizeRun` reads it), its checkpoints (`steps` as
`stepsOf` folds them, `waiting`, `snapshots`) and a `scope`, the id under which
its ledger is filed. `Mode(r)` is `planResume`, in its order of tests. A tool
call goes through `Begin` (ledger), `Dispatch` (checkpoint `tool_intent`),
`Ask`/`Answer` (approval wait), `Run`, `Commit`/`Fail` (ledger) and `Note`
(checkpoint `tool_commit`), and the process may end between any two of them.
`Resume` is `agent:chat` with `resumeRunId`; a plan that requires review is
allowed too, since the user may force it. `Branch` is a time-travel branch.

### RequestQueue

`slots`, `used` and `waiting` are the fields `limit`, `active` and `waiting` of the
class; `request[c]` and `aborted` stand for the promise and the signal of caller
`c`'s latest `run()`.
Between the moment a waiting call gets its slot (`granted`) and the moment
`run()` goes on (`running`) other callbacks run: that is the window in which the
signal may fire although its listener is gone, and `Resume` has to give the slot
back. `QueueGrants` is again the closed form of the drain loop.

### Leases

`lease[k]` is the entry of the registry for key `k`: holder and age, in thirds
of the time to live, which is how often `createProjectRunLeases` renews.
`scope[r]` and `due[r]` are the scope and the timer of a run, `call[a]` the
writing call an agent is in, with the snapshot (`seen`) its tool took before it
asked for a confirmation. `late` holds calls that outlived their timeout. What a
file holds is abstracted to who wrote it last, and whether that was an own text
or a restored one. `Tick` lets a third pass; timers that are due fire first, since
the process is not suspended (`Stalls = FALSE`). Two writers ask for no lease of what
they write, and `Unleased` names them: `bulk_edit`, whose files are in an argument that
`resourceKeysFor` does not look at, and a compensation of a file whose path is not
canonical (`Linked`), which claims another key of it. Both are in the run.

### FileLock

`lock` is the lock file: who created it, whether its owner text is complete, and
whether it is older than `STALE_LOCK_MS`. `pc[c]` is the next file-system call of
transaction `c`: `Begin` (`openSync 'wx'`), `Stat` and `Owner` (`staleLock`),
`Unlink`, `Again` (the second `openSync`), `Write` (the owner), `Load` and `Save`
(the callback), `Check` and `RemoveLock` (the `finally`). `reclaims` says which of the two
kinds of lock the file is, and never changes: `withFileLock`, or the lock of
`goalStore.mutate`, which has neither owner nor age limit and is never taken over.
The second kind excludes. The first does not, from three transactions on.

### TaskLifecycle

An *execution* is a task with the number of an attempt (`executionId`). `run[e]`
is how far `delegate()` has come with it: `waiting` for a slot, `granted`,
`working` (an agent runs), `returned`, or `failing` when the first write of its
view did not work. `task` and `count` are the manager's, `disk` and `diskCount`
what `persistTaskView` has written. `Enqueue` is the start of `delegate()`,
`Enter` the grant, `Start` or `Refuse` what `executeTask()` does first, `Settle` the end
of `delegate()` with the status that abort and deadline impose. `AskRetry`,
`EnterRedo`, `GiveUpRetry` and `Redone` are `retry()`: it checks, waits for the
slot exclusively, asks the user, compensates and delegates again before the slot
is given back. The scheduler appears as what it is proved to implement,
`ReadersWriterLock`, with attempts and retries as holders. `Moves` is
`TASK_TRANSITIONS`; `Settle` needs the move to be one of them, since
`transitionTask` throws otherwise. `launched` and `dirty` are history.

### ResultReview

Tasks are numbered in the order of creation, and each has run once. `result` holds
phase, attempt and review of each, `saved` the same as the views have it; `writes` are the views that the present
synchronous part of a handler has still to write, in order (`rank`), and `Flush`
writes the next, so that a crash may leave any prefix. `Invalidate` is the
propagation over `dependsOnTaskIds`, `HydrateTasks` what a new process makes of the
views. `confirm_and_merge` is `AskMerge`, `Answer`, `MergeCheck`, `Merge` and
`Merged`, or `MergeFails`; the time limit of the tool (`TimeOut`) lets the parent
go on beside it. `lapses` is a history of three things after which mistakes are
possible: an answer after the time limit (`late`), a mark that was not saved
(`lost`), and a crash between the marks of a retry and its retraction (`cut`).

### Undo

The run is one attempt that writes files with `write_file`. `phase`, `before` and
`post` are the attempt journal, `order`, `image` and `rpost` the ledger as
`recordsForRollback` reads it. `Begin`, `ToolWrites`, `Commit`, `Fail` and
`TimeOut` are the steps of a tool call; a tool that timed out may still write,
if the file is what it was bound to (`seen`). `Inspect` is
`inspect_subagent_retry`, `approved` the plan it showed; `CompStart` compares it
with the present one, `CompFile` restores a file, `CompStops` and `CompDone` end
it. `RollbackStart` plans and `RollbackFile`, `RollbackRefuses` and `RollbackEnd`
apply. Both are synchronous in the code, so no tool of the process runs between
their steps (`Idle`), but other programs do (`Edit`), and a crash may come.
`Mistaken` is the one edit left out: restoring by hand what a record says the run
left. Both ways of undoing compare digests, so they take such a file for the
run's, as they must.

### Goals

`goal`, `exec`, `task`, `adm`, `reviewed` and `proof` are `goals.json`; `claim`
and `live` are `activeAutoAdvanceClaims` and the runs the main process knows
to be alive; `window` is the dispatch the window is busy with. `Decision` is
`plan()`. `Advance`, `ClaimNext` and `ClaimAfterWait` are the scheduler's tick,
`Expire` and `Refresh` the two halves of `refreshGoals`. `ChatAdmitted` is
`agent:chat` with a claim up to the admission in the store, `ChatEnds` everything
that may end it before, `Finish` and `FinishUnsettled` the end of a run with and
without its settlement written, `GiveBack` the release at the end of a dispatch. The
rest is the window that comes, goes and reloads, the user, and crashes. The answer
to a business decision sets tasks free that it blocked (`ResolveDecision`); that an open
one refuses, budgets and hand-over only refuse more and are left out. Between the look
at a claim (`ipc/agent.cjs:704`) and the admission (`:923`, or the `onStart` of an
external agent, `runExternal.cjs:53-90`) there is no `await`, so `ChatAdmitted` is one step.

## 3. What is checked

| Run | Instance | Shows |
| --- | --- | --- |
| `shared` | 3 readers and 2 writers with 2 slots; 4 callers, 2 places, a limit between 1 and 2; 3 transactions of 2 processes on a lock file | scheduler: `Consistent`, `NoLostWakeup`, `NoOvertaking`, `IsReadersWriterLock`; queue: `QueueConsistent`, `NoIdleSlot`, `NobodyIsPassed`; lock files: `LockAccounted`, `GoalsExclude`, `NoGoalLost`; `EveryWaiterIsServed`, `EveryCallIsServed`, `RetryGetsThrough` under fairness |
| `ledger` | 2 agents, 2 writes to one file, a shell command, `scan_project`, 2 changes of the file | `DoubtIsRecorded`, `SkipOnlyDone`, `ImagesPredateRun`, `NoReplayInDoubt`, `DoneIsNotRepeated` |
| `recovery` | 3 runs, two of which resume the first or branch off, a write and a shell command, approvals, failing saves | `PlansAreSound`, `NoBlindReplay`, `CommittedWorkIsNotRepeated` |
| `leases` | 2 runs, 2 sub-agents and a supervisor, 2 files, one behind a link, `write_file` and `bulk_edit`, one late call | `HeldWhileNeeded`, `OneWriter`, `OverwritesWhatItSaw` |
| `review` | a chain of 3 tasks, the second with isolated code, one review at a time, 2 attempts, an edit, a crash | `SharedIsBacked`, `CodeAccounted`, `RetractionStands` |
| `lifecycle` | a builder in the shared workspace, one in a worktree, a reviewer; 2 slots, 2 attempts each and 3 in all, a crash, a failed write | `TasksAccounted`, `QuotaKept`, `ChangesAreTraced`, `UndoneAlone`; `EveryAttemptSettles` under fairness |
| `undo` | 2 files, the first written twice, 2 edits, a crash | `ToolsAreDone`, `EditsSurvive`, `ClaimsAreTrue` |
| `goals` | 2 tasks, the second rests on the first, 2 runs, 2 claims, one continuation allowed, 3 interventions, a crash, a failed write | `RunsAccounted`, `AllowanceKept`, `InterruptedIsReviewed`, `StopHolds`; `EveryClaimEnds` under fairness |

The scheduler, the queue and the lock files have no state in common, so `shared` lets
one of them move at a time while the other two are in an initial state: its
behaviours are those of the three, and no others.

Invariants that belong together are one conjunction of named parts, with the
type invariant among them: `Consistent` of the scheduler is `TypeOK`,
`WriterExclusive`, `SlotsAccounted` and `QueueAccounted`, `QueueConsistent` is
`QueueTypeOK`, `RequestsAccounted` and `WaitingAccounted`; `PlansAreSound` has
`AutoIsSafe`, `HeldWhileNeeded` has `WritersHoldTheirFile` and
`NothingLeftLocked`, `LockAccounted` has `NothingLeftBehind`, `CodeAccounted` has
`ConfirmedCodeIsMerged` and `MergedOnce`, `TasksAccounted` has `OneExecution`,
`RunsAccounted` has `OneRunPerTask`. `EditsSurvive` is `LaterEditsSurvive` (for
compensation) with `RollbackKeepsEdits`, `ClaimsAreTrue` is `CompletedIsRestored`
with `OkIsBeforeTheRun`. `TypeOK` and `NeverTwoExecutions` of the ledger and
`NoGrantOverLimit` of the queue are proved and not in a run. `MCSubagentScheduler`
assumes that the closed form of `drain` equals the loop as written, for every
queue of up to four entries, and TLC evaluates that assumption in each run.

`DoubtIsRecorded` is write-ahead logging: whatever may have had an effect and is
not accounted for is pending or unknown in the file and in memory, always.
`NoReplayInDoubt` is what it is for. `DoneIsNotRepeated` and `SkipOnlyDone`
are the two directions of deduplication. `ImagesPredateRun` makes a rollback
meaningful: no before-image is something the run itself wrote.
`AutoIsSafe` relates the two journals: when the plan says *auto*,
each step without a result in the checkpoints is a write that was done, and whatever
is in doubt is a write that the ledger has pending, so that `begin()` stops it. The
header of `runCheckpoint.cjs` promises more, that nothing is in doubt
(`AutoMeansSettled`), which the code breaks.
`WritersHoldTheirFile` says that renewal keeps a lease alive as long as its call
waits for a confirmation, and `OneWriter` what that is worth: who changes a file that
another agent holds is one of the writers that asked for no lease of it (`Unleased`),
and nobody else, whatever expires, is refused, fails or is tried again.
`OverwritesWhatItSaw` is the second line of defence for calls that no longer
hold anything: the version check of `write_file` and `edit_file`.

`ChangesAreTraced` is write-ahead logging one level up: an attempt's changes that
nobody accepted or undid can be found in the views after a crash at any moment.
`UndoneAlone` is why `retry()` takes the scheduler exclusively, and
`EveryAttemptSettles` says that the deadline is enough to end every attempt,
though agents may hang and users may never answer. `SharedIsBacked` is the point
of the whole review: nothing is handed on that rests on something not confirmed.
`ToolsAreDone` says that a compensation runs only when no tool of the attempt
can still write; `EditsSurvive` that a compensation does not take back what
somebody wrote later, nor a rollback without force in a file of which a write was
committed (before its plan: it does not look again); `ClaimsAreTrue` that "completed" and "ok" mean it.
`InterruptedIsReviewed`, `StopHolds` and `EveryClaimEnds` are the three promises
of unattended work: what was cut off waits for a person, a stop also stops what
is on its way to the window, and no claim blocks its task for ever.

**Runs that must find a violation.** Disagreements between the code and what
it says of itself; `PROJECT.json` has the quotations.

| Run | What the code does |
| --- | --- |
| `recovery_chain` | resuming a run that resumed another one uses the middle run's id as scope: its ledger is empty, and a write in doubt is executed again |
| `recovery_retry` | a second attempt of a failed write is not a pending step (`runCheckpoint.cjs:356-362, 467`) and the ledger's pending records are not looked at: a crash in it is planned *auto* with an open outcome (`AutoMeansSettled`) |
| `filelock_three` | a lock that vanished counts as stale and is unlinked by its path (`fileLock.cjs:22, 54`): the fresh lock of a third call is removed, and two are inside; no crash is needed |
| `undo_doubt` | a write that was declined or failed leaves a before-image without a fingerprint: a rollback without force replaces whatever somebody wrote to that file since |

**Gaps met while modelling, without a run of their own.** Some can be seen by
changing the constants of a run, as noted.

- Ledger. A change between a tool's return and `commit()` is recorded as the
  tool's own state, so a write may be skipped although its content is gone. A process
  that could not load the ledger replaces it when `scan_project` times out or throws
  (`sideEffects.cjs:25, 395`; `tools/descriptor.cjs:69`), and the next one repeats a
  write in doubt: `NoReplayInDoubt` is false without its exception for what was `wiped`.
- Recovery. A write whose commit could not be saved is also planned *auto*, for
  the reason that `recovery_retry` shows. The review marker of a time-travel branch
  is written and never read, and a resumed branch starts with an empty ledger.
- Leases. `bulk_edit` names its files in `list` (`tools/impl/bulkEditTool.cjs:128`),
  which `resourceKeysFor` does not look at (`tools/leases.cjs:64`), so it writes a file
  that another agent holds. `retry()` makes its keys without `canonicalPath`
  (`subagents.cjs:1598`), so under another spelling it writes one, too. "One writer at
  a time" (`leases.cjs:6`) is false of the code without these two exceptions (`Unleased`).
  A call that outlived its timeout may write beside the new holder of its
  lease (`OneWriter` leaves late calls aside). A suspended process (`Stalls = TRUE`)
  loses leases in use. A lease does not protect what was read before it was asked for.
- File locks. A crash inside a goal transaction leaves a lock that nothing
  removes (`goalStore.cjs:24`), so `RetryGetsThrough` is not about that lock. Where two
  transactions of `withFileLock` overlap (`filelock_three`), the second save undoes
  the update of the first.
- Reviews. A retry is blocked by `review.integration` alone (`subagents.cjs:1562`), which
  a retraction drops, so merged work may be redone. A merge that git completed and
  the check after it refused, or a crash while `integrating`, leaves merged code
  with a result that counts as not merged. A retry saves the marks on what rests
  on the task before its own retraction: a crash in between leaves a confirmed
  result on one that is not (`lapses` has `cut`; the comment at `:659` promises the
  opposite). A confirmation after the time limit may overwrite a retraction
  (`late`). `worktreeTool.cjs:121-137` merges outside of the review.
- Life cycle. A crash leaves tasks that are hydrated as `running` or `queued`:
  the first can only be cancelled to `cancelling` and never settle, the second
  cannot be cancelled, and either blocks a retry of what it rests on. The deadline
  of a cancelled attempt reports it as blocked. `delegate()` ignores a failed
  hydration, and a view file that is partly malformed is rejected as a whole, so
  quotas could start again from 0. A retry that is refused for a quota after its
  compensation leaves the files rolled back. A run that is resumed has a new id,
  and with it fresh views and quotas.
- Life cycle, roles. A read-only role is one whose tools are all reads for the
  scheduler; the verifier is read-only by its rights and still takes the slot
  exclusively, since it may run a shell (`subagents.cjs:216-224`, `tools/roles.cjs:75-83`).
  What its shell commands change leaves no mark in a view (`:1695`, `:1703`), and
  `ChangesAreTraced` is not about it: `dirty` follows the roles that write.
- Undo. `finish()` takes the fingerprint for every phase, so a compensation undoes
  an edit that others made while a failed operation was under way. A rollback does
  not look at a file again between its plan and its write (`disturbed`); after a
  compensation it reports a false conflict, which is safe. A run in progress can
  be rolled back.
- Goals. A claim that was sent, whose chat then failed and whose window is
  reloaded, or whose release cannot be written, stays in `activeAutoAdvanceClaims`:
  it blocks the scheduler, the start of an execution and acceptance until the
  program is restarted (`stranded`). A crash between `admit` (`ipc/agent.cjs:923`) and
  `startRun` (`:992`) leaves an unknown run without a record, which can never be
  reviewed (`goalStore.cjs:79-90` throws). A second process would take the runs of the
  first for orphans.

**Bounds.** Tasks, agents, operations, files and runs are finite sets. `limit`
of the scheduler is 2: with 1 nobody shares, and beyond 2 the drain loop meets no
new condition (the theorems cover every limit). The queue's limit moves between
1 and 2 with two places, so that it is lowered below what is in use, raised
past what waits, and the queue overflows. `MaxEdits` bounds the changes of a
file: with 2 in the ledger's run an agent's write and somebody else's edit, or
two writes, follow each other in either order, which is what the fingerprints
tell apart; in `recovery`, where the runs are the point, it is 1. `MaxDepth`
bounds chains of resumption; 1 is the depth up to which the code keeps its
promise, and `recovery_chain` shows what depth 2 does. A branch counts as being
at that bound. `MaxLate` bounds calls that outlive their timeout: one is enough
to meet every other call. Two agents suffice for conflicts over one operation.
`FileLock` has three transactions of two processes: two are a conflict, and the third
is the one whose fresh lock the others may meet. `ShellOrScan` is the bound of
the ledger's run: each of its behaviours has a shell command or a scan or neither, and
any of them with both writes. They meet the writes in the same places, as what
leaves doubt in an operation and what may replace the file. In the leases' run the
supervisor is the one that may use `bulk_edit`: the role that writes for it does not
have that tool (`tools/roles.cjs:51-61`). A chain of three tasks is what a propagation over more than one
edge needs; the isolated one is in the middle, so that a merge stands between a
confirmation below and one above. Three attempts for three tasks of two attempts
each make both quotas bind. In `Undo` two operations on one file give every
order of a settled and an unsettled one, two edits one before and one after a
plan. `MaxActs` of `goals` counts interventions of the user, the start of the
execution aside: three are enough to stop, review and go on. Every bound is a
constant whose comment says *bound*; limits of the program (`Limit`,
`MaxTasksPerRun`, `Cap`, which the settings have at 3) are not bounds. Symmetry is used for agents, equal writes and later runs
in runs without liveness. Deadlock is checked in the ledger's run; in the others the
work really ends (in `shared`, that of the lock file), so it is off.

**Fairness.**

- `SubagentScheduler`: weak fairness of `Release` for each task. `delegate()`
  calls the handle in a `finally` (`subagents.cjs:1734`), and a deadline timer
  (`:1673`) aborts every execution, so a granted task ends. The exception is
  `retry()` (`:1600-1627`), which holds its slot while it waits for the user:
  an answer is assumed. Nothing is assumed of arrivals and aborts.
- `RequestQueue` (`QueueFairness`): weak fairness of `Resume` (the event loop runs the
  continuation of a settled promise) and of `Finish` (model requests have a
  timeout). Nothing is assumed of new calls, aborts and changes of the limit.
- `FileLock` (`FileFairness`): weak fairness of time (`Age`) and of the steps of each call that
  has begun. For a refused call that means that its caller tries again, which is
  what the error message asks for. Nothing is assumed of failures and crashes.

- `TaskLifecycle`: weak fairness of `Deadline` (a timer fires), of `Return` for
  an attempt that is aborted (the signal ends the agent's loop), and of `Settle`
  (`delegate()` goes on). Nothing is assumed of an agent that is not aborted, of
  the user, of grants or of the parent.
- `Goals`: weak fairness of `Expire` and `Refresh` (the scheduler refreshes a bound
  project by a timer) and of `GiveBack` (the window's `finally`). Nothing is assumed of
  chats, runs and the user.

## 4. What is proved

Every safety property that a run checks and that is true of the code is a theorem:
it holds for every value of the constants that satisfies the hypotheses named below.
Two have a hypothesis beyond the kinds of the constants, without which the code breaks
the property: `MaxDepth`, as `recovery_chain` shows, and `~Stalls`, since the timers of a
suspended process do not fire in time. What the code does not keep everywhere is said
in the property itself: what was `wiped`, who is `Unleased`, which lock `reclaims`.

| Module | Theorems | Hypotheses |
| --- | --- | --- |
| `SubagentSchedulerProofs` | `AlwaysConsistent` (with `TypeCorrect`, `WritersAlone`, `SlotsNeverLost`, `QueueNeverLost`), `NoWakeupLost`, `FirstComeFirstServed`, `ImplementsLock` | |
| `RequestQueueProofs` | `AlwaysConsistent` (with `TypeCorrect`, `SlotsNeverLost`, `QueueNeverLost`), `NoWakeupLost`, `NeverOverLimit`, `FirstComeFirstServed` | |
| `SideEffectLedgerProofs` | `DoubtAlwaysRecorded`, `OneExecutionAtATime`, `SkipsOnlyWhatWasDone`, `NothingReplayedInDoubt`, `ImagesAreOriginals`, `DoneStaysDone` | |
| `RunRecoveryProofs` | `PlansAreAlwaysSound`, `NothingReplayedBlindly`, `CommittedWorkStays` | `MaxDepth <= 1` |
| `LockProofs` | `RunsReturnTheirLeases` | |
| | `FilesAreHeldWhileNeeded` | `~Stalls` |
| | `OneWriterAtATime` | `~Stalls` |
| | `EditsOverwriteWhatTheySaw`, `LockFileIsAccountedFor`, `GoalLockExcludes`, `GoalUpdatesStay` | |
| `TaskProofs` | `AlwaysAccounted`, `QuotaAlwaysKept`, `ChangesAlwaysTraced`, `FilesUndoneAlone` | |
| | `CodeAlwaysAccounted`, `RetractionsStand`, `SharedIsAlwaysBacked` | |
| `UndoProofs` | `ToolsAlwaysDone`, `EditsAlwaysSurvive`, `ClaimsAlwaysTrue` | |
| `GoalsProofs` | `RunsAlwaysAccounted`, `AllowanceAlwaysKept`, `CutOffIsReviewedFirst`, `StopAlwaysHolds` | |

The kinds of the constants are the assumptions named in the modules
(`...Assumption`), which TLC evaluates on every run.

**Scheduler.** The inductive invariant is `Accounted`: the
queue lists the waiting tasks once each, `active` counts the granted ones,
`writer` says whether one of them writes, and a writer is alone. Since every
action ends in a drain, the proof has one hard lemma: a drain that starts from
accounted variables ends in accounted ones. It needs that the loop stops
(`GrantsStops`, from the least number principle) and what it may hand out
(`GrantsFit`). The refinement (`ImplementsLock`) needs in addition that a step
removes at most one holder and that the new set is compatible, which is the invariant
again. `FirstComeFirstServed` follows from what each action does to the queue.

**Queue.** `RequestsAccounted` alone is not inductive, since a drain counts what it
takes from the queue: the invariant adds that the queue has no duplicates and holds
exactly the waiting calls. One lemma about the drain carries all six, and the two
action properties follow from it and from what each action does to the queue.

**Ledger.** `DoubtIsRecorded` is not inductive: a save replaces the whole file by
what is in memory, so one must know that memory is as good as the file at each save,
or that what it lacks is `wiped`.
`Inv` adds that a process which could not load its ledger executes nothing but
reads (`BlindOnlyReads`), that an operation with effects is held by one agent, open
and pending (`HeldIsOpen`, `HeldByOne`), that a tool which outlived its call
belongs to an attempt that is not settled as done (`LateIsOpen`), and that
*committed* means done (`CommittedIsDone`). `NothingReplayedInDoubt` then
follows because `begin()` refuses what memory marks as pending or unknown
(`BeginsOutOfDoubt`). Before-images and finished writes need a second invariant,
`Knowledge`, on top of the first: what a journal *knows*, in memory and in the
file, is that its images are older than every write of the run (`ImagesIn`), that
the files of what is under way have one (`TakenIn`), and that a write which still
stands is committed with the fingerprint of the file (`StandsIn`). Nothing is assumed
of reads: with `scan_project` among them the theorems say that only what was `wiped` may
be repeated.

**Recovery.** Between two runs of a family only the files remain, so the invariant
says what they tell. `Family`: every run resumes the first one, in the scope of the
first one, so that they share one ledger. `MemoryIsFile`: as long as no save has
failed, memory is that ledger, and after a failed save the process does nothing
more. `LedgerInv`: the call in hand is pending in the file (`HandIsPending`), what
is in doubt is pending or unknown there (`DoubtIsInFile`), what is committed is done
(`CommittedIsDone`), and a write that stands is committed with the fingerprint of
its file, hence skipped by `begin()` (`StandingIsInFile`). `PlansAreAlwaysSound`
joins that with the checkpoints: a pending step of a run that `planResume` calls
automatic has a ledger entry of the kind that is done, and what is in doubt has one
that is pending, of a write. With `MaxDepth` above 1,
`Family` fails, a resumed run reads an empty ledger, and `recovery_chain` violates
`NoBlindReplay`: the hypothesis is the finding.

**Leases.** `Base` says that a lease is held by an agent at work in an open scope,
which is all `RunsReturnTheirLeases` needs, suspended processes included. For
`FilesAreHeldWhileNeeded` add `Renewed` (a lease in use was renewed in this third of
its time, or its timer is due, and then time does not pass) and `WritersHold` (a
call that writes holds what it names, under the canonical key). `OneWriterAtATime`
then says that whoever changes a file holds it, unless it is `bulk_edit` or a
compensation with keys of its own spelling. `EditsOverwriteWhatTheySaw` does not
use the leases at all: it is about the versions that calls in progress have seen,
late ones included.

**Lock files.** `Explained` gives for each step of a transaction what the lock file
can be, with or without taking over. `Owns` (a transaction past its creation owns the lock
file, and has read what the data still holds) is kept by every step except the
unlink of a lock that is not abandoned. The goal store never unlinks a lock it
finds (`NothingIsTakenOver`), and the kind of lock stays (`OneKindOfLock`), so both
properties hold for it, crashes included.
For `withFileLock` they are false, so of that `LockFileIsAccountedFor` is what is left.

**Life cycle.** The invariant says that an attempt under way is the one in the
record of its task, which is not settled and has no retry (`Under`); that a retry is
of an attempt that is over (`Redoable`); that memory and disk both show whatever is
dirty (`Traced`), where the write at the start of an attempt matters, since disk is
otherwise older than memory; and that a retry which holds the slot is alone
(`Alone`). The last rests on `Compatible` of `ReadersWriterLock`, the promise that
`ImplementsLock` proves the scheduler keeps: the two modules meet in the proof.
`QuotaAlwaysKept` needs a count that memory and disk agree on: what started an agent
is registered in both (`Registered`), an attempt that was not started left no trace
(`Fresh`), and the counters are the number of records that show a start
(`Counting`), so a crash between the write of a view and the start of its agent
gives nothing back.

**Reviews.** `RInv` says of each call of `confirm_and_merge` that it is of an attempt
that is over, and of the last one if the parent still waits (`CallFits`); of each
record, in memory, in the views or about to be written, what it says by itself
(`Sound`) and beside the record in memory (`Past`); that the views have the attempt
of memory or are about to (`InStep`), and that no write in line would turn a
retraction back (`InOrder`); and that changes still pending were never merged
(`MergesFit`). `CodeAlwaysAccounted` and `RetractionsStand` follow.

`SharedIsAlwaysBacked` needs a second invariant, since a crash makes the views the
memory, in the middle of a propagation that has reached some of them. `Backing`
says: memory is backed; a view that no write is waiting for agrees with memory, and
of the writes for one task the last does (`Agrees`); and the views are
`Recoverable`, except while a retry is between its marks and its retraction
(`Cutting`, which `lapses` calls `cut` if the process ends there). Recoverable
means that a confirmed view above one that is not confirmed is *covered*: below it is
a root, a view that is retracted or was marked on its own account, which no waiting
write replaces, and from which `hydrateTasks` will mark it again. The proof that a
propagation keeps this is about the order of its writes: the root comes first
(`RootIsNearest`), so that whatever the later marks leave without support is
covered already (`MarkSaved`). `HydrateIs` and `HighestRoot` say that the
hydration finds every covered view. All of it stands on what `Within` computes, for
which `WithinLaw`, `ReachIsLeast` and `ReachIsClosed` prove that it is the least set
that is closed under `dependsOnTaskIds`, because dependencies are older than what
rests on them. A call the parent waits for changes nothing underneath meanwhile
(`CallsBacked`).

**Undo.** The invariant says what the journal has of an operation that may still
write (`PhasesOk`, `RecordsOk`), that an edited file does not look as a record says
the run left it (`LaterOk`, where digests are worth something), and how far a
compensation or a rollback in progress has come (`CompOk`, `RollOk`): each file is
still to do, was edited meanwhile, or is back. `RollbackKeepsEdits` is not true of a
file without a committed write, which is the finding of `undo_doubt`, so the theorem
has that condition and not more.

**Goals.** For any tasks in any order with any dependencies (cycles included), any
allowance, and any crashes, failed writes and interventions. None of the four is
inductive. `RunsOk` ties the runs of the process to the file, `LostOk`
says that what was cut off still has its run or waits for a review, `PaidOk` that
a continuation is paid for when it is claimed and not when it starts, `StopsOk`
that the number of a stopped execution does not come back, and `ClaimsOk` that a
task and the claim of the process with the same number agree on the execution, so
that a dispatch of a stopped execution meets a claim that is not its own.

**Assumptions of the models.**

- Fingerprints (mtime and size) tell file versions apart.
- A plain failure (an error result that is not EFFECT_UNKNOWN) had no effect.
  The code trusts its tools in this; the ledger cannot know better.
- What a shell command does to files counts as an edit by somebody else.
- `atomicWriteFile` is atomic: the old file or the new one.
- In `RunRecovery`, one run of a task is active at a time, checkpoints are not
  lost, and read-only calls are left out (they are not saved, and the plan lets
  them pass). `SideEffectLedger` has the concurrent agents and the reads.
- In `FileLock`, `unlink` removes whatever the path names at that moment, and a
  process needs less than `STALE_LOCK_MS` between creating its lock file and
  having written the owner into it.
- In `TaskLifecycle`, `ReadersWriterLock` stands for the scheduler, which is proved
  to implement it; a task is not delegated again under the same id other than by
  a retry; once the parent was aborted it delegates nothing more.
- In `ResultReview`, each task has run before the reviews start, and git either
  merges, refuses or fails.
- In `Undo`, `compensate()` and `applyRollback()` are one synchronous piece of the
  process each (they have no `await`), and edits are never `Mistaken`.
- In `Goals`, one process and one goal; `goals.json` is replaced as a whole
  (`FileLock` has the lock that several processes need). `goal:verify` and the
  other handlers that read and write the store without an `await` are one step.

**Only model-checked.** Liveness (`EveryWaiterIsServed`, `EveryCallIsServed`,
`RetryGetsThrough`, `EveryAttemptSettles`, `EveryClaimEnds`): fairness and ENABLED
are beyond the prover. `GrantsIsTheLoop` is an
assumption of `MCSubagentScheduler` that compares with a recursive operator: TLC
evaluates it.

## 5. Not modelled

Whole components are listed in `PROJECT.json` with the reason. Model protocol,
retrieval, settings and UI compute on text and are left to tests; the sandbox and
external processes appear only as outcomes of tools. The directory
`baselines/` holds an older copy of the same program, and `rag`, `embedder` and the
window's stores are the larger part of the source: they have no state that more
than one actor changes between two steps, so there is little a model would add.

Within modelled components:

- Recovery: sub-agent batches and task views in `planResume` (they only add reasons
  for a review), an invalid state history, the context-window stop, lost
  checkpoints, two processes on one ledger, `repairToolPairing`.
- Ledger: actor labels, redaction, the bridge to the event bus.
- Life cycle: prompts, roles, tool filters, cost envelopes, the text that results are
  merged into; the leases an attempt takes (they are in `Leases`); creation
  and removal of worktrees.
- Reviews: `worktreeTool.cjs`, code verification, the contents of a conflict.
- Undo: the blob store and its limits, a journal that cannot be saved, canvas
  images, external effects, paths outside the project.
- Goals: `goal:auto-advance-claim` (`ipc/agent.cjs:397-402`), a second way to claim that the
  window does not call; budgets, the refusals of an open business decision, context, plan proposals, hand-over, scopes.
  They refuse more, or carry text.
- Leases: the canvas and the project save, which have one fixed key each.

## 6. Plan

Done, in the order of what would hurt most: `SubagentScheduler` with
`ReadersWriterLock` above it, `SideEffectLedger`, `RunRecovery`, `RequestQueue`,
`FileLock`, `Leases`, `TaskLifecycle` on the abstract lock, `Undo`, `Goals` and
`ResultReview`; the safety of each is proved, as far as the code has it. Left:

1. Lost checkpoints, sub-agent batches and two active runs in `RunRecovery`.
2. `ResultReview` under `TaskLifecycle`: attempts and reviews that interleave, where
   a retry is now one step. The product of the two is too large for TLC as it is;
   the two invariants are a start for a proof.
3. `RunLog`: rotation of the event log and crashes in it; `agentState.cjs` as the
   path the events must follow. Today `RunRecovery` has the status only.
4. `Budget`: reserve and settle up a parent chain; one synchronous step each, so a
   model has to earn its place by the order of late settlements.
5. `Approval`: one-shot tokens between the registry and the user.

## 7. Running

```
tlc -workers 2 -config Shared.cfg MCShared
tlc -workers 2 -config SideEffectLedger.cfg MCSideEffectLedger
tlc -workers 2 -config RunRecovery.cfg MCRunRecovery
tlc -workers 2 -config Leases.cfg MCLeases
tlc -workers 2 -config ResultReview.cfg MCResultReview
tlc -workers 2 -config TaskLifecycle.cfg MCTaskLifecycle
tlc -workers 2 -config Undo.cfg MCUndo
tlc -workers 2 -config Goals.cfg MCGoals
tlc -workers 2 -config RunRecovery_chain.cfg MCRunRecovery      # finds a violation
tlc -workers 2 -config RunRecovery_retry.cfg MCRunRecovery      # finds a violation
tlc -workers 2 -config Undo_doubt.cfg MCUndo                    # finds a violation
tlc -workers 2 -config FileLock_three.cfg MCFileLock            # finds a violation
tlapm SubagentSchedulerProofs.tla      # and the other ...Proofs modules
```

The passing runs have up to ten million states and take between half a minute and
three minutes each; the others take seconds. `TaskProofs` takes about three minutes, the other proof modules a minute or
less each.
