# TLA+ verification of the Chalk protocol

Chalk keeps a project spine in `.chalk/` (tasks, decisions, reviews, an event log) and a CLI,
`bin/chalk.mjs`, that drives a coding agent through a read, work, verify, write loop. Every command is a
separate, short-lived process; several of them (a human's terminal, the executor's own `chalk raise`,
`chalk run`, a parallel sweep) work on the same files. Chalk's promise is about order and authority: no
work without criteria, no completion without a green verify on the locked test and a passing review, no
correction by the human director lost.

This directory models that: the lock over the spine and the store, the task lifecycle, the queue driver,
the pipeline from an issue to a merge with the agents and gates it asks, and what runs around it (release,
archive, the held-out set and the tamper evidence, scheduled runs). TLC checks small instances; TLAPS proves
every safety property the runs check for all values of the constants, those of the driver and the gates of the
lifecycle under named hypotheses about what else is in use. Liveness is left to TLC.

## Inventory

| Part | State it keeps | Operations | Talks to others by |
|---|---|---|---|
| Spine lock (`lib/store.mjs` `withLock`) | `.chalk/.lock`: its existence and mtime | open `wx`, stat, rename (steal), unlink, give up | the file system |
| Task store (`lib/store.mjs`) | `tasks.json` | `mutateTasks`, `upsertTask`, `saveTasks` | runs under the lock; used by every command |
| Task lifecycle (`bin/chalk.mjs`) | one record per task: state, criteria, locked tests, reviews, block, directives, raises, pipeline stage | `task add`, `spec`, `align`, `start`, `block`, `unblock`, `handoff`, `work`, `done`, `review`, `amend-spec`, `raise`, `pending accept/redirect/answer` | reads and upserts whole records; `work`, `review`, `block` and `handoff` run an agent, `work` and `done` run verify |
| Scheduling (`lib/store.mjs`) | none | `runnableTasks`, `depsSatisfied`, `needsRework`, `resolveDirectives` | pure over the tasks |
| Queue driver (`lib/run.mjs`) | iterations, reason to stop | pick, execute, verify, review, complete, park | executor and reviewer subprocesses, store |
| Pipeline (`lib/pipeline.mjs`, `lib/reviewloop.mjs`) | `task.pipeline.stage`; behind it worktrees, branches, pull requests and one git stash | branch, plan, work, commit, pr, review, evidence, merge; the fix loop; parallel chains; cleanup | each stage is a `chalk` subprocess whose exit code decides; git and gh |
| Merge gate (`lib/mergegate.mjs`, `lib/brokecheck.mjs`) | none | blockers of a merge | pipeline, gh |
| Autopilot, loop | `.chalk/local/autopilot.lock` | pull issues, look at the lock, ask the doctor, sweep, file retro issues; bounded rounds | gh, pipeline, doctor, retro |
| Archive | `archive/*`, `updates.jsonl`, `tasks.json` | plan, move, shrink | store |
| Release | package.json, CHANGELOG, release commit, tag, deploy branch, `task.released` | cut, promote, resume a release | store, git, gh |
| Tamper evidence | `local/spine-hashes.json`, `chalk.json` | record and compare hashes | after each save, on each entry |
| Held-out regression, phases | the locks of the held-out set, the last audit, the phase, all in `chalk.json` | `guard add`, `guard gen`, `audit`, `phase` | chalk.json, an author agent |
| Agent runner and adapters | none | resolve a profile, check its capabilities, run one synchronous subprocess with a timeout, decode, compare workspaces | executor, reviewer, planner |
| Verify, e2e, test gates | none | toolchain, integrity, the required test, break-it and mutation probes | read the tasks and the checkout; break-it stashes and pops |
| Reports, telemetry, connect, demo, portal, doctor | none of consequence | views | read only |

What is hard in this code:

- **Stale whole-record writes.** `work`, `done`, `review`, `block` and `handoff` read a task, run something for
  minutes and write the whole record back; the driver does so twice. The lock makes each write atomic; it does not make the record fresh.
- **A lock made of four system calls.** Between the stat that judges a lock file and the rename that takes
  it, the file may have become another process's.
- **Crashes.** A killed process leaves its lock file, a task in progress, a stage half way.
- **Sequences nobody wrote a test for.** Block twice, answer after done, redirect a task that was verified
  once, amend a locked test between two gates, lock a first test after the review has passed.
- **Effects and their records.** A stage acts on git or GitHub and then writes the task; a release writes
  two files, a commit, a tag, a remote and a record per task. Whoever dies in between must be resumed from
  what can be seen.
- **Shared things nobody locks.** `chalk.json`, `updates.jsonl`, the files of the archive, the autopilot's
  lock file (looked at, then written), and the git stash, which all worktrees of a repository share.
- **Termination.** The driver's queue is re-read every round while humans keep changing it; the fix loop,
  the polls for CI and the rounds of the loop have bounds of their own.

The properties each part must have, in a phrase: the lock excludes, or says how it failed to, and never
wedges; the store loses no update while the lock holds; the lifecycle never skips a gate and never loses a
correction; the driver completes in dependency order, runs nothing twice, leaves nothing behind and ends; the
pipeline merges what was reviewed, once, and resumes from a stage that tells the truth; a release tells a
delivery once and marks it after its tag; the archive loses and doubles nothing; the phase gate sees the last
audit; two scheduled runs do not sweep together, and a dead one does not stop the schedule.

## Modules

| Module | What it is |
|---|---|
| `SpineLock` | `withLock`, one action per system call, with a clock, stealing, giving up and crashes |
| `AtomicStore` | what `mutateTasks` promises: one task's record changes in one step |
| `SpineStore` | `mutateTasks` and `upsertTask` in the body of `SpineLock`: read and rename are two steps |
| `TaskRecord` | a task, and the change each handler makes to the record it has read |
| `TaskLifecycle` | the task commands over an atomic store, long handlers split where an agent or verify runs |
| `Driver` | `chalk run` as one more session beside the humans of `TaskLifecycle` |
| `AgentRunner` | one run of an agent in a role: profile, capabilities, transport, verdict, read-only enforcement |
| `TestGates` | verify, the required test, break-it and mutation: what comes of how their commands end |
| `Pipeline` | `chalk pipeline`, its stages, the fix loop, the parallel driver, over git and pull requests |
| `Release` | `chalk release`: plain, `--commit`, `--promote`, and their resumption |
| `Archive` | `chalk archive` over three files, beside commands and a second archive |
| `SpineMeta` | `guard`, `audit`, `phase` over an unlocked `chalk.json`, and the tamper evidence |
| `Autopilot` | `chalk autopilot` and `chalk loop` as schedules start them |
| `MCTaskLifecycle`, `MCDriver`, `MCPipeline`, `MCRelease`, `MCArchive`, `MCSpineMeta` | instances: commands in use, permitted overlaps, queues, ways to release, symmetry sets |
| `SpineStoreProofs` (with the lock's), `TaskLifecycleProofs`, `DriverProofs`, `PipelineProofs`, `ReleaseProofs`, `ArchiveProofs`, `SpineMetaProofs`, `AutopilotProofs` | theorems and their proofs |

`SpineStore` extends `SpineLock`; `Driver` extends `TaskLifecycle`, which extends `TaskRecord`; `Pipeline`
extends `AgentRunner` and `TestGates`. `SpineStore` is shown to implement `AtomicStore`, and the lifecycle
modules use an atomic store: the two halves meet there. A reader who wants to know what happens to the
lifecycle when the lock is lost reads `SpineStore`; the lifecycle is modelled for a spine whose lock holds.
`Pipeline` takes a stage's write of the task as atomic, too: what a stale record does to it is the subject of
`TaskLifecycle`. `Autopilot` takes a chain of the pipeline as one step.

### SpineLock

`pc[p]` is the place of a process in the acquisition loop: `open` before `openSync(…, 'wx')`, `stat` after
EEXIST, `steal` after the file was judged stale, `body` inside `fn`. `owner` and `age` are the file at
`.chalk/.lock`; `fd[p]` says whether `p` created a lock file for the body it is in. A tick of the clock ages
the file and the processes; `HoldLimit` bounds the ticks a *live* process spends in the body, which is a
read and a write of one file: a process suspended for longer than `LOCK_STALE_MS` is not modelled (it would
lose its lock by design). `breaches` records how protection was lost: a live file renamed away
(`captured`), a live file of someone else unlinked in the finally block (`unlinked`), the body entered
without the lock (`unlocked`).

### SpineStore

Each process is called with a change of one task. `ReadTasks` and `WriteTasks` are the two file operations
of `mutateTasks`; `acked` is a history of the last version written for each task. `writeJSON` renames a
complete file into place, so a crash leaves the old or the new file.

### TaskRecord and TaskLifecycle

A record has the fields the handlers decide on. Criteria, reviews, notes and locked files are abstracted to
what is told apart: whether there are criteria, the verdict of the last review, whether that review carries an
open judgment call, and `tests`, the revision its test file is locked at, if it is locked. A task with criteria
alone has no lock, and verify then compares nothing. `spec --test` locks the file as it reads now and keeps a
standing pass; `amend-spec` locks it anew and takes the pass. A *note* is one correction on its way from a raise
or a redirect through a directive to its resolution.

`work`, `done`, `review`, `block` and `handoff` are sessions: a begin takes `snap[s]`, the record read, and the
end writes the changed copy back. `block` writes twice: the state at once, and the same copy again with the path
of the handoff document, after an agent may have narrated it (`HandoffEnd`). The other handlers read and write
within milliseconds and are one step; the window between them is the one the lock does not close either, and
it is abstracted away here (a limit of the model).

`Cadence` is `protocol.review`: with `per-task` every task is reviewed, with `milestone-boundary` the last of
its milestone (all tasks of an instance are one milestone), with `none` no task. `DirectorRequired` is
`protocol.director.required`: `work` refuses a task whose criteria nobody has accepted with `align`.

`Commands` are the commands in use in an instance, and `Overlaps` the pairs of a command and a phase in which
it may be issued on a task that a session is working on. This is how an instance says who interleaves with
what: `ByAgents` is an executor calling `chalk raise`, and the test file edited under executor and reviewer.

`issued`, `judged`, `overrides` and `reblocked` are history variables: what the director was owed, which locks
the record had that the last passing review began with, which completions overrode the gate, and which tasks were blocked
while blocked.

### Driver

The driver is the session `Clock`. After its executor, its checks and its reviewer it re-reads the task, so
these writes change the fresh record; what it does not re-read is the state. Twice it writes a copy it read
before a subprocess: a verdict is added to the record, posted to the pull request and only then written
(phase `posting`), and a parked task is written again by `writeHandoff` after the narrating agent (phase
`handoff`). What others wrote in between is overwritten. With `DirectorRequired` it parks a
task with unaccepted criteria before the executor runs (`ParkUnaligned`). `owed` is a history: the tasks handed
to the driver (made ready, let go on, re-opened) and not executed since.

### AgentRunner and TestGates

Both are made of operators only, as the code is made of functions that decide about one run. `AgentRunner`
says what a role's request is, what `runAgent` makes of every way a process may end and everything it may
print, up to two objects, and what is seen of what it does to the workspace. `TestGates` says what comes of
every way the gate commands may end. `Pipeline` does not choose "pass" or "block" freely: it takes the sets
`ReviewOutcomes`, `PlanOutcomes`, `WorkOutcomes` and `ProbeOutcomes` these modules compute. So "a reviewer
that exits nonzero with a verdict has given a verdict", "a spec runner's `run.json` counts more than its exit
status" or "a probe that could not run is not vacuous" are part of what the pipeline's properties are checked
under.

### Pipeline

`task[t]` has the fields the stages read and write (state, stage, worktree, PR number, verdict, plan and its
approval), `git[t]` is the world behind them: whether the worktree exists, what is in it, the local and the
remote branch as sequences of contents, the pull requests and what was squashed onto the base. A content is
the author and number of an edit. `stash` is the one stack of the repository. `pc[t]` is where a chain is;
a stage that acts and then records is two or more steps, and `Crash` may come between any two: the driver and
its subprocesses die, the next sweep starts from the stages on disk. `…Already` actions are the early returns
of a stage that is done. `queue` is what the sweep has picked and no human moved since: `Block` and `Done` are
humans who park or complete a task between two stages of its chain, and the stages that follow meet it so.

`StageFailed` is the park of `lib/pipeline.mjs`: a stage that fails blocks its task, unless the task is done by
then, which `chalk block` refuses and the sweep does not notice; a sequential sweep goes on with the next. A
chain of a parallel sweep reads its task anew and passes over one that is parked (`SkipChain`), and the sweep
takes that for a chain that succeeded. Only a review without a verdict is run once more (`again`). A review that blocks goes to the
fix loop, `Rewind` and back through work, commit, push and review, at most `MaxRounds` times; the exits of its
commit and of its push are ignored, so either may be lost (`CommitFailed`, `FixPush`). In a parallel sweep chains
run to their merge in worktrees of their own and wait in `ready`; `StartMerge` lets one at a time through.
`passed` are the contents a reviewer passed, `lapse` names the faults that took effect; a property that
depends on one says which.

### Release

Versions are numbers; of the history only release commits matter, so a point of a branch is a number of
release commits. `run` is the handler with what it has read. Dates of commits are rounded down to the second
(`SecondOf`), as git's are, and `doneAt` is finer: this is what the resumption's cutoff rests on. `Dies` is the
end of a run that is killed or whose call of git or gh fails; the next run finds what git shows (`Orphan`) and
resumes. `torn` and `racing` are the tasks no resumption can tell right, for the two reasons given below;
`Lost` says which tasks of a run that dies are torn.

### Archive

`proc[a]` is a run of the command with its plan, the shelf it has read and the split of the log; each file
operation is a step, and a kill within a write leaves a truncated file. `cmd` is one other command with the
record it has read; commands also log events. `raced`, `missed` and `lapse` record the interleavings in which
the code loses something.

### SpineMeta

A command reads the baseline (`Enter`), compares `chalk.json` with it (`CompareMeta`), then `tasks.json`, and
warns (`CompareTasks`). It loads `chalk.json`, works and saves, and then records: it hashes one file
(`HashMeta`), then the other (`HashTasks`), and writes the baseline. Each is a step, since none is under a lock. `guard gen` waits for its author between load and
save, for minutes. Hashes are contents. `hand` and `quiet` are the files edited by hand and not yet recorded,
in the second case while no command was at work; `overlap` has the commands beside whose check another
recorded, and `lapse` says that a save overwrote another's (`overwritten`), that a recording was cut off by a
kill (`unrecorded`), or that a baseline was put back by one which had read its files earlier (`stale`). The
write of the baseline is best-effort in the code; that it fails is not modelled, nor that `tasks.json`, which
is saved under the lock, is saved after the lock is lost.

### Autopilot

Each run has its place (`pull`, `import`, `look`, `take`, `doctor`, `queue`, `sweep`, `retro`, `unlock`) and
its round. The lock file is none, fresh or stale; it goes stale by a step of the clock. An issue with a
checklist becomes a `specd` task, one without a `todo`: `runnableTasks`, and with it the doctor, passes over the
latter, the pipeline queues it, and `work` takes it once it has criteria or a test. So a task has its criteria,
its lock, its state and the state it was parked from, and `Command` is what humans make of it meanwhile. `lapse`
holds `lost` from the moment the lock fails to keep out another run, and `pulls` once two pulls overlapped;
`unseen` are the tasks that came to be worked behind the doctor's back.

## Runs

| Run | Instance | Shows |
|---|---|---|
| `spine_store` | 2 processes, 2 tasks, 3 calls, 1 crash, stale:wait = 2:1 | the lock: `DoubleHoldExplained`, `UnlinkNeverFirst`, `HoldersOwnTheFile`, `LockTypeOK` and, under fairness, `NeverWedged`; the store: `NoLostUpdate`, and that it implements `AtomicStore` while the lock is not lost |
| `lifecycle` | 1 task, 1 session, every command, review per task, criteria to be accepted; the executor's raise and edits of the test file overlap | `CorrectionsSurvive`, `NoVerifyOnOpenFork`, `DoneOnApprovedTest`, `TypeOK`; and `ReopenedAwaitsRework`, `CriteriaUnlessReblocked`, `BlockedCanResume`, which are proved for any overlap |
| `lifecycle_answer_lost` | raise and answer during the executor | *violated*: `CorrectionsSurvive` |
| `driver_unattended` | 2 tasks in a chain and in one milestone, 2 runs of at most 2 picks, review at the milestone's boundary, criteria to be accepted, executors raise and edit files | `DoneAfterDeps`, `QueueDrained` |
| `driver_directed` | 1 task, 2 runs of at most 2 picks, a director who redirects, answers, reviews and parks while they run, and answers or resumes while a handoff is told | `NoDoubleRun`; under fairness `RunTerminates` |
| `pipeline` | 1 issue, 2 fix rounds, 2 edits, 4 sweeps, 2 faults of 8 kinds; planner, reviewer and e2e bound or none of them | `StageIsHonest`, `MergedIsReviewed`, `MergedOnce`, `SweepSettles`; under fairness `SweepEnds` |
| `pipeline_parallel` | 2 issues, 2 chains at once, 1 edit each, 2 sweeps, 1 crash | `NoWorkOfOthersUnlessProbed` |
| `release` | 2 tasks, 1 delivery each, 2 faults, 2 instants to a second, the four ways of `Ways` | `NotedOnce`, `MarkedIsNoted`, `MarkedIsTagged`; under fairness `RunEnds` |
| `archive` | 2 tasks, 2 archives, 3 revisions, 5 events, 1 kill | `RecordsKept`, `EventsKept`, `EventsOnce`, `NoDanglingEdges` |
| `archive_chain` | 3 tasks, 1 archive, 2 revisions, 6 events, no kill | *violated*: `ReferencedIsKept` |
| `spine_meta` | 2 commands at a time, 3 in all, 2 held-out files, 2 moves (edits, growth of the code, kills), 4 commands and moves together | `NothingUndone`, `GateIsFresh`, `EditsAreSeen`, `NoFalseAlarm` |
| `autopilot` | 2 scheduled runs, 1 issue opened or filed by retro, with or without a checklist, 2 tasks, 2 moves (kills, humans who specify, lock a test, unblock) | `OverlapExplained`, `ImportedOnce`, `MergedIsBacked`; under fairness `ScheduleGoesOn` |

Many properties have the form "it holds, unless this happened". The second half is not there to make the
first true: it is the list of the ways in which the code loses the guarantee, and TLC shows that the list is
complete. Each property has a mutant in PROJECT.json, a change of the code under which it fails.

### Bounds, and why they are enough

- Processes of the lock. A captured live lock needs a judge, a holder that left and a holder that came; with
  three calls the second process is both, so two processes reach every kind of breach and re-entry. Proofs
  lift the safety part to any number.
- Tasks. Handlers touch one task; what relates two tasks is the one-at-a-time gate of `start`, verify's
  integrity check and dependencies. The driver runs use two tasks for the dependencies; the record-level
  theorems hold for any set of tasks.
- Sessions. One long handler and any short ones already overlap in every way the properties tell apart; the
  theorems hold for any number of sessions.
- `MaxRev = 1` is one edit of the locked test, enough for "amended after approval". One note is enough for
  raise, answer and redirect to collide on it.
- `MaxIter = 2` and two runs: a pick, a second pick and the limit, then a fresh run over what the first
  left behind. Deadlock is not checked for the driver, since all runs may have been used up.
- The pipeline. One task meets every stage, retry and resumption; two fix rounds are a block after the fix of
  a block; four sweeps let a task be parked, unblocked, crash and be re-opened; two faults allow a fault
  during the recovery from another. What relates two tasks is the shared stash and the serial merge, which
  have the parallel run; the fix loop is switched off there (`MaxRounds = 0`) to keep it small, and of the faults
  it has the crash. Deadlock is not
  checked, since all sweeps may have been used up.
- The release. Two tasks are the one in the commit and the one done too late for it; two instants to a
  second are a task done after the commit and within its second. `MaxPolls = 1` is "pending, then an answer".
- The archive. Two tasks are one that is moved and one that depends on it; three revisions are created,
  released, written again; a kill between any two steps and a repetition. `archive_chain` has the three tasks a
  chain needs and nothing that disturbs the one archive.
- `spine_meta`. Two processes race; the third command is the one that sees what they left, and four events are
  two that race, an edit and the one that sees it, or three and an edit. Two held-out files
  tell apart a lock that is kept from a set that is replaced.
- `autopilot`. Two runs race for the lock; two moves are what it takes to give criteria to a parked todo and to
  resume it. A loop has one round here: a second round differs from a loop that is started again only in what
  ends it (`NextRound`). With two rounds and the same moves the four properties hold as well (2,475,217 states), which
  takes longer than a run should.

### Fairness

- `spine_store`: a process that has not been killed keeps executing its system calls and the body, and the
  clock runs. Nothing makes a process call the store or crash. The loop of `withLock` is synchronous and
  sleeps for `LOCK_POLL_MS`, so weak fairness of each process is what the scheduler gives.
- `driver_directed`, `pipeline`: weak fairness of the driver's steps. The commands it runs are synchronous
  subprocesses, each ended by its own timeout (`lib/agent-runner.mjs` and `lib/verify.mjs`: ten minutes). No
  fairness is assumed of humans, of faults, or of which outcome a stage has.
- `release`: weak fairness of the handler, whose calls of git and gh return.
- `autopilot`: weak fairness of each run's steps for the same reason, of the clock (a lock that nobody
  removes ages), and of the start of a run, which is what a schedule is.

## What the runs found

Two runs are findings of their own; PROJECT.json names the lines and quotes the comments that say otherwise.

*An answer given while the executor runs is lost* (`lifecycle_answer_lost`). The answer removes the open
raise that would have stopped `work`; `work` then writes the record it read before the executor ran, and both
the raise and the answer are gone.

*The archive moves what a kept task depends on* (`archive_chain`). `planArchive` keeps a released task that an
unreleased one depends on, but asks nothing about what the kept task depends on itself, and moves that. Of a
dependency that is not found `depsSatisfied` is false, so the kept task, once re-opened, is never runnable.

The models also show the following, each either as a named exception of a property or as a behaviour that
no property denies. A reader of the code should know them.

Store and lifecycle:

- A live lock can be captured: in `withLock`, `stale` starts true and a stat that finds no file leaves it so.
  If another process creates the lock before the rename, the rename takes it, and an upsert of one task can
  then undo a concurrent upsert of another (against the comment at `lib/store.mjs:332`). No crash is needed.
- The stage of a task verified by `chalk work` is not rewound when it is re-opened, so the next `chalk work`
  says "already verified" (`bin/chalk.mjs:964`).
- `chalk spec --test` on a task without a lock takes the test as it reads and leaves a passing review standing
  (`bin/chalk.mjs:1484`): a task with criteria alone may pass its review, have its test edited and then locked,
  and be completed on a test the review never saw. `DoneOnApprovedTest` says that a pass stands on the locks it
  was given under, not that there were any.
- A correction made while the driver posts a verdict (`lib/run.mjs:131`), or while `blockTask` or `chalk block`
  waits for the narrating agent of the handoff (`lib/handoff.mjs:86`), is overwritten, as is an unblock: the
  task is then parked again.
- The driver resolves no directive (`lib/run.mjs:142`): a re-opened task it completes stays marked and is
  runnable again until `--max`. An answer restores `in-progress`, which `runnableTasks` does not select, so a
  task the driver had parked is not taken up by the next run. Nor is the task of a driver that was killed.
- A review begun before a driver completes the task writes the older record back; a pass there resumes a
  parked task to `in-progress`.
- A block issued while `work` or the driver runs the executor is overridden; a task blocked twice is still
  blocked after one unblock and has lost its state to resume; `unblock` and the answer may make a second task
  in progress, since only `start` asks the one-at-a-time gate; `done` ignores open raises; an amendment
  during `done`'s verify or the driver's review is not seen; the driver's review entries carry no judgment
  calls (`lib/run.mjs:126`). Under `milestone-boundary` two last tasks completed at once each see the other
  unfinished. An answer, an amendment or a review during `done`'s verify is overwritten.
- Nothing takes an acceptance of criteria back: criteria added by `spec` after `align`, and a redirect, leave
  it in place; and `start` followed by `done` completes a task without one, since only `work` and the driver
  ask (`bin/chalk.mjs:975`, `lib/run.mjs:69`).

Pipeline and agents:

- A failed push of a fix is swallowed (`lib/reviewloop.mjs:15`), and so is a `chalk commit` that failed on a
  dirty tree (`lib/reviewloop.mjs:24`): the reviewer judges the worktree, and the stale head is merged. `pr`
  returns early when there is one, without pushing the commits made since.
- `chalk block` refuses a done task, and the sweep ignores its exit (`lib/pipeline.mjs:79`, `92`, `99`): a task
  that a human completes under a chain is counted as blocked and stays done, its branch unmerged.
- A task parked between the start of a parallel sweep and the turn of its chain is not in that chain's queue;
  the chain exits 0, and its merge follows (`lib/pipeline.mjs:129`): refused, unless the task was unblocked by
  then, and then of the pull request it has from before. When gh prints no address the record of a pull request has no number
  (`bin/chalk.mjs:684`), and the merge is refused.
- A crash between `gh pr merge` and the record of `done` makes the next sweep start over: branch, second
  pull request, second merge. A crash between a commit and its record ends in "nothing to commit" and a block.
  After a cleanup of a pushed task the new branch cannot be pushed.
- A reviewer that edits the worktree is refused and its edit stays: the retry starts from the edited
  worktree and may pass it. Edits of held-out files by a read-only agent are outside the snapshot.
- Break-it probes of concurrent chains share the stash of the repository (`lib/breakit.mjs:28` promises that
  the change survives, `lib/pipeline.mjs:125` that chains never share a checkout): a chain may pop, and then
  commit, the other's change.
- A parallel sweep counts a refused merge and parks nothing. With no reviewer bound and a review required the
  merge gate refuses every task. A plan that is made again keeps its approval. With an empty branch the
  captured diff falls back to the last commit, so a review may be of the base.
- `decodeStructuredRole` takes the last object of an answer of any shape, so a verdict that another object
  follows is an error, although the comment at `lib/review.mjs:116` says that the last valid verdict is
  recovered. A break-it or mutation command that cannot run counts as neither vacuous nor surviving.

Release, archive, chalk.json, schedules:

- Release: a kill between the CHANGELOG and the commit tells the deliveries again in the next section and
  skips a version; with `--commit` a kill between the tag and the marks tells them again, and a plain release
  killed after its tag collides with that tag until a human changes the version. The resumption's cutoff is
  the commit's date, in seconds: a task done within the commit's second is left out and told again, and a task
  done while the run was before its commit is marked although no section tells it. Without package.json,
  `--no-tag` repeats a version. `released` is never cleared, so the rework of a released task is never released.
- Archive: events logged between the read and the rewrite of the log are lost; a kill within the write of a
  year's file loses the earlier tasks of that year, and every later archive ends in the parser; a task
  re-opened and written after a killed archive has two records, of which the older one stays on the shelf.
  Two archives at once may drop each other's shelf. A command holding a record brings an archived task back.
- `guard gen` writes back the locks, the audit and the phase it read before its author ran. The phase gate
  compares the size of the code with that of the audit and nothing else. A recording of hashes absorbs an edit
  made by hand while the command ran; an entry between a save and its recording warns of the save; and a
  recording that read the files before another command's save, and writes after that one has recorded, puts the
  older baseline back, so a later entry warns although nobody edited anything (`lib/store.mjs:242`).
  (`questions.json` is written in the same unlocked way and is not modelled.)
- Autopilot: two runs may both pass the exists check, against "overlapping scheduled runs can't stomp each
  other" (`lib/autopilot.mjs:2`); the rmSync in the finally block removes whoever's lock is there; the pull
  is outside the lock. The doctor's question for locked tests does not see a task in progress, a task that
  is imported, specified or unblocked after it has been asked, nor a `todo` with criteria: a task imported
  without a checklist, parked by a sweep, given criteria while it is blocked and unblocked is one, the pipeline
  queues it and `work` takes it (`lib/pipeline.mjs:48`, `bin/chalk.mjs:979`).

## Proofs

All theorems hold for every value of the constants that satisfies the named assumption of the module
(`LockAssumption`, `StoreAssumption`, `RecordAssumption`, `LifecycleAssumption`, `DriverAssumption`,
`PipelineAssumption`, `ReleaseAssumption`, `ArchiveAssumption`, `MetaAssumption`, `AutopilotAssumption`).
Where a theorem needs more, that is its ASSUME, and said below. The proofs are all of one kind: an inductive
invariant, checked by TLC on an instance first, one case per action, and a last temporal step. They begin with
the type invariant, which carries the bounds the later steps count with.

- **`SpineStoreProofs`.** `LockInvariance` is the inductive invariant of the lock: types, who waits has no
  descriptor, and the ownership clause `HoldersOwnTheFile`. The clause is what is needed to show that a steal
  or an unlink meets a live file only after a first capture; from it follow `DoubleHoldIsExplained`,
  `HoldersKeepTheFile` and `UnlinkIsNeverFirst`. The store reuses it: its variables do not disturb the lock.
  The strengthening is `FreshUntilWritten`: a process about to rename has the file's contents as it read them,
  because no one else can be in the body. `NoUpdateIsLost` and the refinement `StoreImplementsAtomicStore`
  follow, the latter step by step: `WriteTasks` maps to `Mutate`, everything else to a stutter.
- **`TaskLifecycleProofs`.** `RecordInvariance` is about *records*, on disk or in a session's hand: each
  handler writes the record of one moment changed by one operator, so an invariant of the operators survives
  any overlap. The strengthening quantifies over snapshots as well as over `disk`, which is why it holds for
  any `Overlaps`. `ReopenMarkerIsSound`, `CriteriaGateHolds` and `BlockedTasksCanResume` follow.
  `CorrectionsAreDurable` assumes that nothing but an executor's raise, and edits of the test file, overlap a
  long handler (`OnlyAgentOverlaps`), and needs a second invariant: the snapshot of a session agrees with the
  disk on the corrections, except for corrections raised since, and from the `checks` phase on for none.

  The two gates are proved under the same assumption. `GateInv` adds to the invariants above that a passing
  verdict stands only while the locks stay which its review began with (`Approved`), and that a session's
  snapshot equals the disk on all that the gates decide on (state, state to resume, locks, verdict, stage), with
  no open fork while `work` is at its checks. The first clause is the one that matters: `spec` only ever adds a
  first lock, `amend-spec` is the one command that moves a lock and takes the pass away, and verify refuses a
  file that has left its lock. `OpenForkStopsVerify` and `CompletedOnApprovedTest` follow, since only the end of
  `work` marks a task verified and only the end of `done` completes one.
- **`DriverProofs`.** The driver is one more session of the lifecycle, so `DriverSteps` first reduces its
  steps to what they do to a task (wait, take up, park, tell, complete) and `Steered` says what a human's command
  can do to one. `ExecutorsRunOnce` holds unless done tasks are re-opened, for any overlap: a ready task is
  owed. `DependenciesComeFirst`, `RunsDrainTheQueue` and `DriverKeepsCorrections` assume that no `work`,
  `done`, `review`, `block` or `handoff` runs beside the driver (`OnlyDriverWorks`). They are false without it:
  `chalk done` does not ask for the dependencies, and the others write an older record back.
  `RunsDrainTheQueue` assumes moreover that nobody starts, unblocks or answers a task meanwhile (`HandsOff`),
  each of which takes a task out of the queue. `DriverKeepsCorrections` assumes that no correction is made
  while the driver posts a verdict or tells of a parked task (`NoCorrectionWhileTelling`), where it holds a
  copy; its invariant is that this copy has the corrections of the task (`CopyHasNotes`). `Steady` is the core: a completed task has its dependencies completed, and no step takes
  the completion of a dependency back.
- **`PipelineProofs`.** `PipelineInv` is the types, `Soundness`, `Scheduled` (a sweep runs chains of what it
  has picked) and `ProbesAlone`. `Soundness` says `Sound` of every task, a predicate over the *values* of one
  task (its record, its branches and pull requests, the chain's place and request, what was passed) in eight
  parts, one per promise a stage hands to the next (rounds, worktree, requests, commits, delivery, synchrony
  with the remote, judgement, ownership of edits), each with the faults that break it. As it mentions no variable, each stage is a lemma without
  primes, and the proof of the step is a case split that applies them. `SweepsSettle` rests on `Scheduled`:
  what is queued and idle is to do, ready, or settled. The five safety properties of the two runs follow, for
  any number of issues, chains, fix rounds, sweeps and faults.
- **`ReleaseProofs`.** `RouteInv` (each place of the handler belongs to a way to release; past its commit the
  handler is at the newest release commit) carries everything. `MarksAreTagged` needs `TagInv` (how far the
  remote is when the handler is where it is) and `MarkInv`: what a mark rests on stays, since tags are only
  re-pointed while origin has none. `MarksAreNoted` needs that before its commit a handler has every task
  there is to release, so the cutoff of a later resumption covers no one who is not in the section, but for
  who was done meanwhile (`racing`). `DeliveriesAreNotedOnce` needs the most: versions are new until they are
  finished (`NewInv`), the handler holds tasks as they were or that have gone on (`HeldInv`), and a told
  delivery is *settled* (`SettledInv`): an earlier one, re-opened, in the handler's hands, or behind an orphan
  which the next run resumes instead of starting afresh.
- **`ArchiveProofs`.** With any number of archives and kills between any two writes. `NoEventIsDeleted`: an
  event is in a log or in the half of the split an archive still has to write. `NoEventIsDoubled`: before the
  rewrite no event is in both logs. `EdgesOfOpenTasksAreKept`: no archive moves what a record in its first
  revision depends on. `NoTaskIsDeleted` is the longest: the spine has the newest record of each of its tasks
  (`WrittenInv`), what an archive puts in place of the shelf holds the shelf (`ShelfInv`), and no task is in
  both but those being moved (`LastInv`).
- **`SpineMetaProofs`.** `SavesUndoNothing` is inductive: a save of what has not changed since the load does
  to `chalk.json` what the command did to its copy. `PhaseGateIsFresh` follows from it. `QuietEditsAreSeen`
  needs that while a quiet edit waits no command is further than its check, that each of these has the baseline
  as it is, and that the edited file differs from it (`QuietInv`). `AlarmsAreTrue` needs that a file which
  differs from the baseline was edited by hand or is about to be recorded by someone (`DriftInv`), and that a
  check beside which nobody recorded has the baseline as it is (`CheckInv`).
- **`AutopilotProofs`.** `OverlapIsExplained`: until the lock is lost, a sweeping run has a fresh lock, is
  alone, and no other is past its look. `IssuesAreImportedOnce`: no two tasks share an issue, and what a run
  is about to import is not imported nor in another run's hands; the count is a bijection. `MergesAreBacked`:
  a task that is not backed is idle (`BackedInv`): nothing has taken it up or will bring it back as taken up, it
  has no criteria while it is `todo`, and it is not `specd` once a run whose doctor has looked may queue it.

`StoreTypeOK`, `DriverTypeOK` and the `TypeOK` of the modules from `Pipeline` on are not spent a run on: the
theorems say what a run would.

The hypotheses of the lifecycle's and the driver's theorems hold in the runs that check the same properties
(`ByAgents` in `lifecycle`, the commands of `driver_unattended` and `driver_directed`), so the theorems
cover these instances and every larger one; `lifecycle_answer_lost` is an instance outside them.

Only model-checked: the liveness properties (`NeverWedged`, `RunTerminates`, `SweepEnds`, `RunEnds`,
`ScheduleGoesOn`), since fairness and ENABLED are out of the prover's reach. What the operators of
`AgentRunner` and `TestGates` compute is checked as part of the pipeline's runs; the proofs use of it only
that a probe is not asked of a run without changes (`ProbesAreOfChanges`), and hold for whatever else it is.

## Not modelled

The components table of PROJECT.json lists every part with its reason. Left out altogether: spine migration
and version skew, the context and the text of handoff documents, and the reports and integrations (they read the spine
and write text). Within modelled parts:

- Lifecycle and driver: the `phase-advance` cadence, several locked files per task, the attempt counter (it
  changes the wording of a block), plan approval outside the pipeline.
- Pipeline: the comments posted to a pull request, `hasRecording` of the evidence, the alignment gate
  (it is in `TaskLifecycle` and `Driver`), `untrackedLockedTests`, and how paths are told to be tests by their names. Humans act on a task between two
  stages of its chain, not within the handler of one.
- Agent runner: the command lines of the single adapters and the accounting of cost; an answer has at most
  two objects.
- Archive: more than one year. Release: a CHANGELOG's text. SpineMeta: where the held-out directory is.
- SpineMeta: a write of the baseline that fails, and a `tasks.json` saved after the spine lock was lost.
- Autopilot: the stages of a chain (they are `Pipeline`'s), the converged marker `retro-last.json`, which the
  loop reports and nobody reads to stop, and the retro agent filing one title twice in one answer.

## Plan

1. In place: the modules above with their runs, and the proofs of every safety property.
2. The overlaps the driver's theorems exclude: how far `DependenciesComeFirst` and `DriverKeepsCorrections` hold when
   reviews run beside the driver, and the windows in which it holds a copy, with histories that name the record
   written back.
3. The gate `plan.required` and the `phase-advance` cadence in `TaskLifecycle` and `Driver`.

## Running

In this directory: `tlc -config <run>.cfg <Module>.tla` with the module PROJECT.json gives for the run, and
`tlapm <Module>Proofs.tla`.
