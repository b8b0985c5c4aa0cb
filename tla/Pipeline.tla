------------------------------ MODULE Pipeline -------------------------------
(***************************************************************************)
(* The issue-to-merge pipeline: chalk pipeline and chalk pipeline          *)
(* --parallel (lib/pipeline.mjs), the stages they run as subprocesses      *)
(* (branch, plan, work, commit, pr, review, evidence, merge), the review   *)
(* fix loop, and the git repository and pull requests behind them.         *)
(*                                                                         *)
(* A stage that acts on the world and then writes the task is two steps,   *)
(* so that the process can die between them; the next sweep resumes from   *)
(* the stage the task has reached.  What a write does to a record that     *)
(* changed meanwhile is the subject of TaskLifecycle: here the commands of *)
(* humans come between the stages of a task, never during one.  A stage    *)
(* that fails and the chalk block that follows are one step.               *)
(*                                                                         *)
(* Content is what a checkout holds: the author and number of the last     *)
(* edit, or Base.  A branch is the sequence of the contents committed.     *)
(***************************************************************************)
EXTENDS AgentRunner, TestGates, Naturals, FiniteSets

CONSTANTS
    Tasks,          \* the tasks made from issues
    NoTask,         \* the author of Base
    Parallel,       \* --parallel; 0: the sequential driver is all there is
    MaxRounds,      \* handoff.maxAttempts
    PlanRequired,   \* protocol.plan.required
    BreakTest,      \* protocol.breakTest is configured
    ReviewRequired, \* reviewRequiredNow
    Bindings,       \* the sets of stages an agent or a command may be bound to
    Faults,         \* what may go wrong: see FaultKinds
    MaxRev,         \* bound: edits per task
    MaxSweeps,      \* bound: sweeps
    MaxFaults       \* bound: faults

\* push, commit: the push or the commit of a fix fails; reader: a read-only agent edits
\* the workspace; unnamed: gh prints no address of the PR; crash: the host goes down;
\* vanish: a worktree is removed by hand; done, block: a human completes or parks a task.
FaultKinds == {"push", "commit", "reader", "unnamed", "crash", "vanish", "done", "block"}

ASSUME PipelineAssumption ==
    /\ NoTask \notin Tasks /\ Tasks # {}
    /\ Parallel \in Nat /\ MaxRounds \in Nat
    /\ {PlanRequired, BreakTest, ReviewRequired} \subseteq BOOLEAN
    /\ Bindings \subseteq SUBSET {"planner", "reviewer", "e2e"} /\ Bindings # {}
    /\ Faults \subseteq FaultKinds
    /\ {MaxRev, MaxSweeps, MaxFaults} \subseteq Nat

VARIABLES
    bound,   \* chalk.json: the optional stages that are configured
    task,    \* tasks.json
    git,     \* per task: worktree, branches, pull requests, what was merged
    stash,   \* the stash of the repository: one stack for all its worktrees
    pc,      \* the stage a chain is in, "idle" when the task has none
    round,   \* the round of the fix loop, 0 outside of it
    sweep,   \* the driver at work: "off", "sequential", "parallel"
    todo,    \* tasks of the queue not yet started
    ready,   \* parallel: chains that wait for their merge
    failed,  \* tasks the sweep has counted as blocked
    sweeps,  \* sweeps started
    queue,   \* history: the tasks of the sweep no human has moved since it began
    passed,  \* history: contents a reviewer passed
    lapse,   \* history: faults that took effect, by kind and task
    faults   \* faults so far

spine == <<bound, task>>
repo == <<git, stash>>
chain == <<pc, round>>
driver == <<sweep, todo, ready, failed, sweeps, queue>>
history == <<passed, lapse, faults>>
vars == <<spine, repo, chain, driver, history>>

-----------------------------------------------------------------------------
(* The task, the repository.                                               *)

\* PIPE_STAGES, the rank of a stage
Rank == [selected |-> 0, branched |-> 1, planned |-> 2, verified |-> 3,
         committed |-> 4, propen |-> 5, reviewed |-> 6, tested |-> 7, cleaned |-> 8]

Task == [
    state    : {"specd", "in-progress", "blocked", "done"},
    from     : {"none", "specd", "in-progress", "blocked"},  \* blockedFrom
    needs    : {"none", "review", "human-input"},            \* block.needs
    stage    : DOMAIN Rank,                                  \* pipeline.stage
    worktree : BOOLEAN,                                      \* task.worktree is set
    plan     : BOOLEAN,                                      \* task.plan is set
    approved : BOOLEAN,                                      \* task.planApproved
    pr       : Nat,                                          \* task.pr.number, 0: none
    verdict  : Verdict \cup {"none"}]                        \* last of task.reviews

Base == [of |-> NoTask, n |-> 0]
Content == {Base} \cup [of : Tasks, n : 1..MaxRev]

\* What git and GitHub hold of a task: its worktree and what is in it, its branch here
\* and at the remote, its pull requests, what was squashed onto the base branch.
Repository == [
    dir    : BOOLEAN,
    files  : Content,
    local  : Seq(Content),
    remote : Seq(Content),
    prs    : Seq({"open", "merged"}),
    merged : Seq(Content),
    edits  : 0..MaxRev]

\* chalk issue pull
Imported == [state |-> "specd", from |-> "none", needs |-> "none",
             stage |-> "selected", worktree |-> FALSE, plan |-> FALSE,
             approved |-> FALSE, pr |-> 0, verdict |-> "none"]

Untouched == [dir |-> FALSE, files |-> Base, local |-> <<>>, remote |-> <<>>,
              prs |-> <<>>, merged |-> <<>>, edits |-> 0]

Init ==
    /\ bound \in Bindings
    /\ task = [t \in Tasks |-> Imported]
    /\ git = [t \in Tasks |-> Untouched]
    /\ stash = <<>>
    /\ pc = [t \in Tasks |-> "idle"] /\ round = [t \in Tasks |-> 0]
    /\ sweep = "off" /\ todo = {} /\ ready = {} /\ failed = {} /\ sweeps = 0 /\ queue = {}
    /\ passed = {} /\ lapse = {} /\ faults = 0

StageDone(t, stage) == Rank[task[t].stage] >= Rank[stage]
Put(t, r) == task' = [task EXCEPT ![t] = r] /\ UNCHANGED bound
Goto(t, p) == pc' = [pc EXCEPT ![t] = p]

HeadOf(g) == IF g.local = <<>> THEN Base ELSE Last(g.local)
\* changedPaths
Dirty(t) == git[t].files # HeadOf(git[t])
OpenPr(t) == \E i \in DOMAIN git[t].prs : git[t].prs[i] = "open"
\* A push is taken when it only adds to the remote branch.
Pushable(t) == IsPrefix(git[t].remote, git[t].local)

\* An edit of the worktree by an agent.
Edited(g, t) == [g EXCEPT !.files = [of |-> t, n |-> g.edits + 1], !.edits = @ + 1]

\* worktreeAdd: a branch that exists is reused, else it starts at the base.
WorktreeAdd(g) == IF g.dir THEN g ELSE [g EXCEPT !.dir = TRUE, !.files = HeadOf(g)]
\* worktreeRemove, and the local branch deleted
WorktreeRemove(g) == [g EXCEPT !.dir = FALSE, !.files = Base, !.local = <<>>]

Suffers(kind) == kind \in Faults /\ faults < MaxFaults /\ faults' = faults + 1

\* chalk block, of a task that is not done
Blocked(r, needs) ==
    [r EXCEPT !.state = "blocked", !.from = r.state, !.needs = needs]

\* The block is lifted; its origin may be missing.
Restored(r, default) ==
    [r EXCEPT !.state = IF r.from = "none" THEN default ELSE r.from,
              !.from = "none", !.needs = "none"]

-----------------------------------------------------------------------------
(* The drivers: runPipeline and runPipelineParallel.                       *)

Active == {t \in Tasks : pc[t] # "idle"}

StartSweep(mode) ==
    /\ sweep = "off" /\ sweeps < MaxSweeps
    /\ sweep' = mode
    /\ sweeps' = sweeps + 1
    /\ todo' = {t \in Tasks : task[t].state \notin {"done", "blocked"}}
    /\ queue' = todo'
    /\ ready' = {} /\ failed' = {}
    /\ UNCHANGED <<spine, repo, chain, history>>

\* One chain after another, or as many as --parallel allows.
MayStart(t) ==
    t \in todo /\ Cardinality(Active) < (IF sweep = "parallel" THEN Parallel ELSE 1)

\* A chain of a parallel sweep is a chalk pipeline --only, which reads the task again.
Idles(t) == sweep = "parallel" /\ task[t].state \in {"done", "blocked"}

StartChain(t) ==
    /\ MayStart(t) /\ ~Idles(t)
    /\ todo' = todo \ {t}
    /\ Goto(t, "branch")
    /\ UNCHANGED <<spine, repo, round, sweep, ready, failed, sweeps, queue, history>>

\* It has nothing to do, and that is no failure: the task is ready to be merged.
SkipChain(t) ==
    /\ MayStart(t) /\ Idles(t)
    /\ todo' = todo \ {t}
    /\ ready' = ready \cup {t}
    /\ lapse' = lapse \cup {<<"skipped", t>>}
    /\ UNCHANGED <<spine, repo, chain, sweep, failed, sweeps, queue, passed, faults>>

\* runMerge: the merges of a parallel sweep follow, one at a time.
StartMerge(t) ==
    /\ t \in ready /\ todo = {} /\ Active = {}
    /\ ready' = ready \ {t}
    /\ Goto(t, "merge")
    /\ UNCHANGED <<spine, repo, round, sweep, todo, failed, sweeps, queue, history>>

EndSweep ==
    /\ sweep # "off" /\ todo = {} /\ ready = {} /\ Active = {}
    /\ sweep' = "off"
    /\ UNCHANGED <<spine, repo, chain, todo, ready, failed, sweeps, queue, history>>

\* The end of a chain: in the fix loop a failure is the reviewer's, else it is
\* a human's to look at.
Leave(t) ==
    /\ Goto(t, "idle")
    /\ round' = [round EXCEPT ![t] = 0]

\* Mutant: the failure is counted and the task is left as it is.
FailUnparked(t, r, needs) ==
    /\ Leave(t)
    /\ Put(t, r)
    /\ failed' = failed \cup {t}
    /\ UNCHANGED <<sweep, todo, ready, sweeps, queue>>

\* A stage failed: the chain calls chalk block and ends.  That chalk block refuses a
\* task that is done is not noticed.
Fail(t, r, needs) ==
    /\ Leave(t)
    /\ Put(t, IF r.state = "done" THEN r ELSE Blocked(r, needs))
    /\ failed' = failed \cup {t}
    /\ UNCHANGED <<sweep, todo, ready, sweeps, queue>>

StageFailed(t) == Fail(t, task[t], IF round[t] > 0 THEN "review" ELSE "human-input")

-----------------------------------------------------------------------------
(* chalk branch                                                            *)

\* The stage is done only while its worktree is there.
BranchAlready(t) ==
    /\ pc[t] = "branch"
    /\ StageDone(t, "branched") /\ task[t].worktree /\ git[t].dir
    /\ Goto(t, "plan")
    /\ UNCHANGED <<spine, repo, round, driver, history>>

BranchNeeded(t) ==
    pc[t] = "branch" /\ ~(StageDone(t, "branched") /\ task[t].worktree /\ git[t].dir)

Branch(t) ==
    /\ BranchNeeded(t)
    /\ git' = [git EXCEPT ![t] = WorktreeAdd(@)]
    /\ Put(t, [task[t] EXCEPT !.worktree = TRUE, !.stage = "branched"])
    /\ Goto(t, "plan")
    /\ UNCHANGED <<stash, round, driver, history>>

\* worktree.setup fails: the worktree is there and nothing is recorded.
BranchSetupFailed(t) ==
    /\ BranchNeeded(t)
    /\ git' = [git EXCEPT ![t] = WorktreeAdd(@)]
    /\ StageFailed(t)
    /\ UNCHANGED <<stash, history>>

-----------------------------------------------------------------------------
(* chalk plan, chalk approve-plan                                          *)

\* Also when the stage is skipped.
PlanAlready(t) ==
    /\ pc[t] = "plan" /\ ("planner" \in bound => StageDone(t, "planned"))
    /\ Goto(t, "work")
    /\ UNCHANGED <<spine, repo, round, driver, history>>

Plan(t) ==
    /\ pc[t] = "plan" /\ "planner" \in bound /\ ~StageDone(t, "planned")
    /\ TRUE \in PlanOutcomes
    /\ Put(t, [task[t] EXCEPT !.plan = TRUE, !.stage = "planned"])
    /\ Goto(t, "work")
    /\ UNCHANGED <<repo, round, driver, history>>

\* The planner cannot take the role, prints nothing or has edited the worktree.
NoPlan(t) ==
    /\ pc[t] = "plan" /\ "planner" \in bound /\ ~StageDone(t, "planned")
    /\ FALSE \in PlanOutcomes
    /\ StageFailed(t)
    /\ UNCHANGED <<repo, history>>

\* A human approves the plan there is now.
ApprovePlan(t) ==
    /\ pc[t] \in {"idle", "work"}
    /\ task[t].plan /\ ~task[t].approved
    /\ Put(t, [task[t] EXCEPT !.approved = TRUE])
    /\ UNCHANGED <<repo, chain, driver, history>>

-----------------------------------------------------------------------------
(* chalk work                                                              *)

WorkAlready(t) ==
    /\ pc[t] = "work" /\ StageDone(t, "verified")
    /\ Goto(t, "commit")
    /\ UNCHANGED <<spine, repo, round, driver, history>>

\* planApprovalRequired
AwaitsApproval(t) == PlanRequired /\ ~task[t].approved

Workable(t) == task[t].state \in {"specd", "in-progress"}

WorkRefused(t) ==
    /\ pc[t] = "work" /\ ~StageDone(t, "verified")
    /\ AwaitsApproval(t) \/ ~Workable(t)
    /\ StageFailed(t)
    /\ UNCHANGED <<repo, history>>

WorkBegin(t) ==
    /\ pc[t] = "work" /\ ~StageDone(t, "verified")
    /\ ~AwaitsApproval(t) /\ Workable(t)
    /\ Put(t, [task[t] EXCEPT !.state = "in-progress"])
    /\ Goto(t, "executor")
    /\ UNCHANGED <<repo, round, driver, history>>

\* The executor edits or not; its result is not looked at.
Executor(t) ==
    /\ pc[t] = "executor"
    /\ \/ git[t].edits < MaxRev /\ git' = [git EXCEPT ![t] = Edited(@, t)]
       \/ UNCHANGED git
    /\ Goto(t, "verify")
    /\ UNCHANGED <<spine, stash, round, driver, history>>

\* What the gates after the executor may say: "red", "green", or "probe" first.
GatesSay == [dirty \in BOOLEAN |-> WorkOutcomes(dirty, BreakTest)]

\* A fork was raised, verify is red, no test in the change, a mutant survives.
WorkRed(t) ==
    /\ pc[t] = "verify" /\ "red" \in GatesSay[Dirty(t)]
    /\ StageFailed(t)
    /\ UNCHANGED <<repo, history>>

\* Verify is green; there is no probe, or nothing for it to revert.
WorkGreen(t) ==
    /\ pc[t] = "verify" /\ "green" \in GatesSay[Dirty(t)]
    /\ Put(t, [task[t] EXCEPT !.stage = "verified"])
    /\ Goto(t, "commit")
    /\ UNCHANGED <<repo, round, driver, history>>

\* Mutant: a tree with nothing to revert is probed: git stash push then adds no
\* entry and the pop takes another one's.
ProbeAlways(t) ==
    /\ pc[t] = "verify" /\ BreakTest
    /\ stash' = IF Dirty(t) THEN <<git[t].files>> \o stash ELSE stash
    /\ git' = [git EXCEPT ![t].files = HeadOf(git[t])]
    /\ Goto(t, "probe")
    /\ UNCHANGED <<spine, round, driver, history>>

\* runBreakit: the change goes to the stash and the tests run without it.
Probe(t) ==
    /\ pc[t] = "verify" /\ "probe" \in GatesSay[Dirty(t)]
    /\ stash' = <<git[t].files>> \o stash
    /\ git' = [git EXCEPT ![t].files = HeadOf(git[t])]
    /\ Goto(t, "probe")
    /\ lapse' = lapse \cup {<<"probe", u>> : u \in
                    IF \E v \in Tasks : pc[v] = "probe"
                    THEN {t} \cup {v \in Tasks : pc[v] = "probe"} ELSE {}}
    /\ UNCHANGED <<spine, round, driver, passed, faults>>

\* git stash pop: whatever is on top; a pop that conflicts leaves it there.
Unstash(t) ==
    \/ /\ stash # <<>>
       /\ git' = [git EXCEPT ![t].files = Head(stash)]
       /\ stash' = Tail(stash)
    \/ /\ ~(stash # <<>> /\ Head(stash).of = t)
       /\ UNCHANGED repo

ProbeGreen(t) ==
    /\ pc[t] = "probe" /\ "green" \in ProbeOutcomes
    /\ Unstash(t)
    /\ Put(t, [task[t] EXCEPT !.stage = "verified"])
    /\ Goto(t, "commit")
    /\ UNCHANGED <<round, driver, history>>

\* A locked test still passes, or a mutant survives.
ProbeRed(t) ==
    /\ pc[t] = "probe" /\ "red" \in ProbeOutcomes
    /\ Unstash(t)
    /\ StageFailed(t)
    /\ UNCHANGED history

-----------------------------------------------------------------------------
(* chalk commit, and the push of the fix loop                              *)

\* The fix loop pushes; outside of it the next stage is pr.
AfterCommit(t) == Goto(t, IF round[t] > 0 THEN "push" ELSE "pr")

\* Nothing new: done already, or a failure the fix loop does not look at.
CommitNothing(t) ==
    /\ pc[t] = "commit" /\ ~Dirty(t)
    /\ StageDone(t, "committed") \/ round[t] > 0
    /\ AfterCommit(t)
    /\ UNCHANGED <<spine, repo, round, driver, history>>

\* Mutant: a clean tree counts as committed.
CommitVacuous(t) ==
    /\ pc[t] = "commit" /\ ~Dirty(t)
    /\ ~StageDone(t, "committed") /\ round[t] = 0
    /\ Put(t, [task[t] EXCEPT !.stage = "propen"])
    /\ AfterCommit(t)
    /\ UNCHANGED <<repo, round, driver, history>>

\* "nothing to commit": the executor made no changes, or they were committed
\* by a process that died before it wrote the stage.
CommitDies(t) ==
    /\ pc[t] = "commit" /\ ~Dirty(t)
    /\ ~StageDone(t, "committed") /\ round[t] = 0
    /\ StageFailed(t)
    /\ UNCHANGED <<repo, history>>

\* git add or git commit fails (a hook, an identity that is missing); in the fix loop
\* that is not noticed, and the review is of a fix that is on no branch.
CommitFailed(t) ==
    /\ pc[t] = "commit" /\ Dirty(t)
    /\ IF round[t] = 0
       THEN StageFailed(t) /\ UNCHANGED <<lapse, faults>>
       ELSE /\ Suffers("commit")
            /\ lapse' = lapse \cup {<<"commit", t>>}
            /\ AfterCommit(t)
            /\ UNCHANGED <<spine, round, driver>>
    /\ UNCHANGED <<repo, passed>>

Commit(t) ==
    /\ pc[t] = "commit" /\ Dirty(t)
    /\ git' = [git EXCEPT ![t].local = Append(@, git[t].files)]
    /\ Goto(t, "committed")
    /\ UNCHANGED <<spine, stash, round, driver, history>>

CommitRecord(t) ==
    /\ pc[t] = "committed"
    /\ Put(t, [task[t] EXCEPT !.stage = IF StageDone(t, "committed") THEN @ ELSE "committed"])
    /\ AfterCommit(t)
    /\ UNCHANGED <<repo, round, driver, history>>

\* Mutant: the fix is left on the local branch.
FixNotPushed(t) ==
    /\ pc[t] = "push"
    /\ Goto(t, "review")
    /\ UNCHANGED <<spine, repo, round, driver, history>>

\* defaultPush: a push that fails is not noticed.  (One that is refused because the
\* remote branch has other commits does not come here: pr has pushed before.)
FixPush(t) ==
    /\ pc[t] = "push"
    /\ \/ /\ Pushable(t)
          /\ git' = [git EXCEPT ![t].remote = git[t].local]
          /\ UNCHANGED lapse
          /\ UNCHANGED faults
       \/ /\ Suffers("push")
          /\ lapse' = lapse \cup {<<"push", t>>}
          /\ UNCHANGED git
    /\ Goto(t, "review")
    /\ UNCHANGED <<spine, stash, round, driver, passed>>

-----------------------------------------------------------------------------
(* chalk pr                                                                *)

PrAlready(t) ==
    /\ pc[t] = "pr" /\ StageDone(t, "propen") /\ task[t].pr # 0
    /\ Goto(t, "review")
    /\ UNCHANGED <<spine, repo, round, driver, history>>

PrNeeded(t) == pc[t] = "pr" /\ ~(StageDone(t, "propen") /\ task[t].pr # 0)

PrPush(t) ==
    /\ PrNeeded(t) /\ Pushable(t)
    /\ git' = [git EXCEPT ![t].remote = git[t].local]
    /\ Goto(t, "create")
    /\ UNCHANGED <<spine, stash, round, driver, history>>

PrPushFailed(t) ==
    /\ PrNeeded(t)
    /\ StageFailed(t)
    /\ UNCHANGED <<repo, history>>

\* gh pr create
PrCreate(t) ==
    /\ pc[t] = "create" /\ ~OpenPr(t) /\ git[t].remote # <<>>
    /\ git' = [git EXCEPT ![t].prs = Append(@, "open")]
    /\ Goto(t, "created")
    /\ UNCHANGED <<spine, stash, round, driver, history>>

\* There is a pull request for the branch already, or gh is down.
PrCreateFailed(t) ==
    /\ pc[t] = "create"
    /\ StageFailed(t)
    /\ UNCHANGED <<repo, history>>

PrRecord(t) ==
    /\ pc[t] = "created"
    /\ Put(t, [task[t] EXCEPT !.pr = Len(git[t].prs), !.stage = "propen"])
    /\ Goto(t, "review")
    /\ UNCHANGED <<repo, round, driver, history>>

\* What gh printed holds no address: the stage is written, the number is not.
PrRecordUnnamed(t) ==
    /\ pc[t] = "created"
    /\ Suffers("unnamed")
    /\ lapse' = lapse \cup {<<"unnamed", t>>}
    /\ Put(t, [task[t] EXCEPT !.pr = 0, !.stage = "propen"])
    /\ Goto(t, "review")
    /\ UNCHANGED <<repo, round, driver, passed>>

-----------------------------------------------------------------------------
(* chalk review --no-retry, its one retry by the driver, reviewFixLoop     *)

ReviewStands(t) == StageDone(t, "reviewed") /\ task[t].verdict = "pass"

\* Also when the stage is skipped.
ReviewAlready(t) ==
    /\ pc[t] = "review" /\ ("reviewer" \in bound => ReviewStands(t))
    /\ Goto(t, "evidence")
    /\ UNCHANGED <<spine, repo, round, driver, history>>

Reviewing(t) ==
    /\ "reviewer" \in bound
    /\ (pc[t] = "review" /\ ~ReviewStands(t)) \/ pc[t] = "again"

\* captureDiff: the edits that are not committed, else the branch against its
\* base; either way the reviewer is shown the checkout as it is.
Shown(t) == git[t].files

\* A reviewer that edits the worktree leaves it so.
ReaderEffect(t, o) ==
    IF o.changed
    THEN /\ Suffers("reader") /\ git[t].edits < MaxRev
         /\ git' = [git EXCEPT ![t] = Edited(@, t)]
         /\ lapse' = lapse \cup {<<"reader", t>>}
    ELSE UNCHANGED <<git, lapse, faults>>

\* clearReviewBlockOnPass
ClearReviewBlock(r) ==
    IF r.state = "blocked" /\ r.needs = "review" THEN Restored(r, "in-progress") ELSE r

\* A pass lets the stage advance only when the PR is there, and ends the loop.
ReviewPass(t) ==
    /\ Reviewing(t)
    /\ \E o \in ReviewOutcomes : o.verdict = "pass" /\ ReaderEffect(t, o)
    /\ Put(t, ClearReviewBlock(
                 [task[t] EXCEPT !.verdict = "pass",
                                 !.stage = IF StageDone(t, "propen") THEN "reviewed" ELSE @]))
    /\ passed' = passed \cup {Shown(t)}
    /\ Goto(t, "evidence")
    /\ round' = [round EXCEPT ![t] = 0]
    /\ UNCHANGED <<stash, driver>>

\* A block sends the task into the fix loop, if there is a round left; one that
\* comes at the retry after an error does not.
ReviewBlock(t) ==
    LET r == [task[t] EXCEPT !.verdict = "block"] IN
    /\ Reviewing(t)
    /\ \E o \in ReviewOutcomes : o.verdict = "block" /\ ReaderEffect(t, o)
    /\ IF pc[t] = "review" /\ round[t] < MaxRounds
       THEN Put(t, r) /\ Goto(t, "rewind") /\ UNCHANGED <<round, driver>>
       ELSE Fail(t, r, IF pc[t] = "again" THEN "human-input" ELSE "review")
    /\ UNCHANGED <<stash, passed>>

\* No verdict: the driver retries once; in the fix loop a round is spent.
ReviewError(t) ==
    /\ Reviewing(t)
    /\ \E o \in ReviewOutcomes : o.verdict = "none" /\ ReaderEffect(t, o)
    /\ IF pc[t] = "review" /\ (round[t] = 0 \/ round[t] < MaxRounds)
       THEN /\ Goto(t, IF round[t] = 0 THEN "again" ELSE "rewind")
            /\ UNCHANGED <<spine, round, driver>>
       ELSE StageFailed(t)
    /\ UNCHANGED <<stash, passed>>

\* Mutant: the round is not counted.
RewindForever(t) ==
    /\ pc[t] = "rewind"
    /\ Put(t, [task[t] EXCEPT !.stage = "branched"])
    /\ round' = [round EXCEPT ![t] = 1]
    /\ Goto(t, "work")
    /\ UNCHANGED <<repo, driver, history>>

\* A round of the fix loop: the stage goes back so that work runs again.
Rewind(t) ==
    /\ pc[t] = "rewind"
    /\ Put(t, [task[t] EXCEPT !.stage = "branched"])
    /\ round' = [round EXCEPT ![t] = @ + 1]
    /\ Goto(t, "work")
    /\ UNCHANGED <<repo, driver, history>>

-----------------------------------------------------------------------------
(* chalk evidence                                                          *)

\* The chain of a parallel sweep stops before merge.
AfterEvidence(t) ==
    IF sweep = "parallel"
    THEN Goto(t, "idle") /\ ready' = ready \cup {t}
    ELSE Goto(t, "merge") /\ UNCHANGED ready

\* Also when the stage is skipped.
EvidenceAlready(t) ==
    /\ pc[t] = "evidence" /\ ("e2e" \in bound => StageDone(t, "tested"))
    /\ AfterEvidence(t)
    /\ UNCHANGED <<spine, repo, round, sweep, todo, failed, sweeps, queue, history>>

EvidenceNeeded(t) == pc[t] = "evidence" /\ "e2e" \in bound /\ ~StageDone(t, "tested")

\* Screenshots are committed and pushed, if there are any and the push works.
Evidence(t) ==
    /\ EvidenceNeeded(t) /\ task[t].pr # 0
    /\ \/ Pushable(t) /\ git' = [git EXCEPT ![t].remote = git[t].local]
       \/ UNCHANGED git
    /\ Put(t, [task[t] EXCEPT !.stage = "tested"])
    /\ AfterEvidence(t)
    /\ UNCHANGED <<stash, round, sweep, todo, failed, sweeps, queue, history>>

\* The PR has no number or the screenshots cannot be committed; or they are pushed and
\* the text of the PR cannot be changed.
EvidenceFailed(t) ==
    /\ EvidenceNeeded(t)
    /\ \/ UNCHANGED git
       \/ task[t].pr # 0 /\ Pushable(t) /\ git' = [git EXCEPT ![t].remote = git[t].local]
    /\ StageFailed(t)
    /\ UNCHANGED <<stash, history>>

-----------------------------------------------------------------------------
(* chalk merge                                                             *)

\* A chain that was skipped may end here after a merge: that counts as merged.
MergeAlready(t) ==
    /\ pc[t] = "merge" /\ StageDone(t, "cleaned")
    /\ Leave(t)
    /\ UNCHANGED <<spine, repo, driver, history>>

MergeNeeded(t) == pc[t] = "merge" /\ ~StageDone(t, "cleaned")

CiStatus == {"pass", "fail", "pending", "none"}

\* brokeCheck, after its bounded polling: the remote checks decide, the local
\* verify when there are none.
BrokeCheck(ci, green) == ci = "pass" \/ (ci = "none" /\ green)

\* mergeBlockers; what is not in progress or has no PR is refused before.
MergeBlockers(t, ci, green) ==
    {b \in {"state", "pr", "broke-check", "review"} :
        \/ b = "state" /\ task[t].state # "in-progress"
        \/ b = "pr" /\ task[t].pr = 0
        \/ b = "broke-check" /\ ~BrokeCheck(ci, green)
        \/ b = "review" /\ ReviewRequired /\ task[t].verdict # "pass"}

\* The gate is closed, the held-out audit is not green, or gh does not merge.
\* The sequential driver blocks the task, the parallel one only counts it.
MergeRefused(t) ==
    /\ MergeNeeded(t)
    /\ IF sweep = "parallel"
       THEN /\ Leave(t) /\ failed' = failed \cup {t}
            /\ UNCHANGED <<spine, sweep, todo, ready, sweeps, queue>>
       ELSE StageFailed(t)
    /\ UNCHANGED <<repo, history>>

\* gh pr merge --squash of pull request i; one that was merged stays so.
Squash(g, i) ==
    [g EXCEPT !.merged = IF @ # <<>> /\ g.prs[i] = "merged" THEN @ ELSE Append(@, Last(g.remote)),
              !.prs[i] = "merged"]

\* gh pr merge --squash --delete-branch; a failure to delete the branch is told
\* from a failure to merge by asking for the state of the PR.  The branch of another
\* PR that is open is left alone.
MergePr(t) ==
    /\ MergeNeeded(t)
    /\ \E ci \in CiStatus, green \in BOOLEAN : MergeBlockers(t, ci, green) = {}
    /\ \E rest \in IF task[t].pr = Len(git[t].prs) THEN {<<>>, git[t].remote} ELSE {git[t].remote} :
          git' = [git EXCEPT ![t] = [Squash(@, task[t].pr) EXCEPT !.remote = rest]]
    /\ Goto(t, "teardown")
    /\ UNCHANGED <<spine, stash, round, driver, history>>

Teardown(t) ==
    /\ pc[t] = "teardown"
    /\ git' = [git EXCEPT ![t] = WorktreeRemove(@)]
    /\ Goto(t, "merged")
    /\ UNCHANGED <<spine, stash, round, driver, history>>

\* Mutant: the stage is written and the state is not.
MergeRecordStage(t) ==
    /\ pc[t] = "merged"
    /\ Put(t, [task[t] EXCEPT !.stage = "cleaned", !.worktree = FALSE])
    /\ Leave(t)
    /\ UNCHANGED <<repo, driver, history>>

MergeRecord(t) ==
    /\ pc[t] = "merged"
    /\ Put(t, [task[t] EXCEPT !.state = "done", !.stage = "cleaned", !.worktree = FALSE])
    /\ Leave(t)
    /\ UNCHANGED <<repo, driver, history>>

-----------------------------------------------------------------------------
(* Humans and faults.                                                      *)

\* No subprocess of the driver is at work on the task.
Between(t) == pc[t] \in {"idle", "branch", "plan", "work", "commit", "push", "pr", "review",
                         "again", "rewind", "evidence", "merge"}

\* A human moves the task: the sweep no longer answers for it.
MovedByHand(t, r) ==
    /\ Between(t)
    /\ Put(t, r)
    /\ queue' = queue \ {t}
    /\ UNCHANGED <<repo, chain, sweep, todo, ready, failed, sweeps, passed>>

\* chalk unblock
Unblock(t) ==
    /\ task[t].state = "blocked"
    /\ MovedByHand(t, Restored(task[t], "specd"))
    /\ UNCHANGED <<lapse, faults>>

\* chalk block
Block(t) ==
    /\ task[t].state # "done"
    /\ Suffers("block")
    /\ \E needs \in {"review", "human-input"} : MovedByHand(t, Blocked(task[t], needs))
    /\ UNCHANGED lapse

\* chalk done, whose gates the work so far passes or a human overrides
Done(t) ==
    /\ task[t].state = "in-progress"
    /\ Suffers("done")
    /\ MovedByHand(t, [task[t] EXCEPT !.state = "done"])
    /\ lapse' = lapse \cup {<<"done", t>>}

\* chalk pending redirect re-opens a task that is done.
Reopen(t) ==
    /\ task[t].state = "done" /\ <<"reopened", t>> \notin lapse
    /\ MovedByHand(t, [task[t] EXCEPT !.state = "in-progress"])
    /\ lapse' = lapse \cup {<<"reopened", t>>}
    /\ UNCHANGED faults

\* chalk cleanup of an aborted task: it is to run again from the start.
Cleanup(t) ==
    /\ pc[t] = "idle" /\ t \notin ready /\ task[t].state = "blocked"
    /\ task[t].worktree
    /\ git' = [git EXCEPT ![t] = WorktreeRemove(@)]
    /\ Put(t, [task[t] EXCEPT !.worktree = FALSE, !.stage = "selected"])
    /\ UNCHANGED <<stash, chain, driver, history>>

\* The driver and its subprocesses die; the next sweep resumes.
Crash ==
    /\ Suffers("crash") /\ sweep # "off"
    /\ pc' = [t \in Tasks |-> "idle"] /\ round' = [t \in Tasks |-> 0]
    /\ sweep' = "off" /\ todo' = {} /\ ready' = {}
    /\ lapse' = lapse \cup {<<"torn", t>> : t \in {u \in Tasks : pc[u] \in {"teardown", "merged"}}}
    /\ UNCHANGED <<spine, repo, failed, sweeps, queue, passed>>

\* A worktree is removed out of band.
Vanish(t) ==
    /\ Suffers("vanish")
    /\ pc[t] = "idle" /\ git[t].dir
    /\ git' = [git EXCEPT ![t] = [@ EXCEPT !.dir = FALSE, !.files = Base]]
    /\ UNCHANGED <<spine, stash, chain, driver, passed, lapse>>

-----------------------------------------------------------------------------

Stage(t) ==
    \/ BranchAlready(t) \/ Branch(t) \/ BranchSetupFailed(t)
    \/ PlanAlready(t) \/ Plan(t) \/ NoPlan(t)
    \/ WorkAlready(t) \/ WorkRefused(t) \/ WorkBegin(t) \/ Executor(t)
    \/ WorkRed(t) \/ WorkGreen(t) \/ Probe(t) \/ ProbeGreen(t) \/ ProbeRed(t)
    \/ CommitNothing(t) \/ CommitDies(t) \/ CommitFailed(t) \/ Commit(t) \/ CommitRecord(t) \/ FixPush(t)
    \/ PrAlready(t) \/ PrPush(t) \/ PrPushFailed(t) \/ PrCreate(t) \/ PrCreateFailed(t)
    \/ PrRecord(t) \/ PrRecordUnnamed(t)
    \/ ReviewAlready(t) \/ ReviewPass(t) \/ ReviewBlock(t) \/ ReviewError(t) \/ Rewind(t)
    \/ EvidenceAlready(t) \/ Evidence(t) \/ EvidenceFailed(t)
    \/ MergeAlready(t) \/ MergeRefused(t) \/ MergePr(t) \/ Teardown(t) \/ MergeRecord(t)

DriverStep ==
    \/ EndSweep
    \/ \E t \in Tasks : StartChain(t) \/ SkipChain(t) \/ StartMerge(t) \/ Stage(t)

Modes == IF Parallel > 0 THEN {"sequential", "parallel"} ELSE {"sequential"}

Human == \E t \in Tasks :
    ApprovePlan(t) \/ Unblock(t) \/ Block(t) \/ Done(t) \/ Reopen(t) \/ Cleanup(t)

Next ==
    \/ \E mode \in Modes : StartSweep(mode)
    \/ DriverStep \/ Human \/ Crash \/ \E t \in Tasks : Vanish(t)

Spec == Init /\ [][Next]_vars

\* A stage returns: subprocesses, agents and polls all have their timeouts.
FairSpec == Spec /\ WF_vars(DriverStep)

-----------------------------------------------------------------------------

Stages == {"idle", "branch", "plan", "work", "executor", "verify", "probe", "commit",
           "committed", "push", "pr", "create", "created", "review", "again",
           "rewind", "evidence", "merge", "teardown", "merged"}

\* What may have happened to a task that a property has to except.
Lapses == {"push", "commit", "reader", "unnamed", "skipped", "probe", "torn", "reopened", "done"}

\* Every variable keeps its type.
TypeOK ==
    /\ bound \in Bindings
    /\ task \in [Tasks -> Task]
    /\ git \in [Tasks -> Repository]
    /\ stash \in Seq(Content)
    /\ pc \in [Tasks -> Stages] /\ round \in [Tasks -> 0..MaxRounds]
    /\ sweep \in {"off", "sequential", "parallel"}
    /\ {todo, ready, failed, queue} \subseteq SUBSET Tasks
    /\ sweeps \in 0..MaxSweeps /\ faults \in 0..MaxFaults
    /\ passed \subseteq Content
    /\ lapse \subseteq Lapses \X Tasks

\* The stage a sweep resumes from tells the truth about git and GitHub, after any
\* crash, block, cleanup or vanished worktree: what is said to be committed is on
\* the branch (if its merge was recorded), what is said to have a PR has one (if gh
\* named it), and what is done was merged, or completed by hand.
StageIsHonest ==
    \A t \in Tasks :
        /\ StageDone(t, "committed") /\ task[t].worktree /\ git[t].dir =>
              git[t].local # <<>> \/ <<"torn", t>> \in lapse
        /\ StageDone(t, "propen") =>
              task[t].pr \in DOMAIN git[t].prs \/ <<"unnamed", t>> \in lapse
        /\ task[t].state = "done" => git[t].merged # <<>> \/ <<"done", t>> \in lapse

\* What is squashed onto the base branch is what a reviewer has passed, unless the
\* commit or the push of a fix was lost, a reviewer edited the worktree it was to judge,
\* or a chain of a parallel sweep was skipped because its task was parked just then.
MergedIsReviewed ==
    ReviewRequired =>
        \A t \in Tasks :
            \/ Range(git[t].merged) \subseteq passed
            \/ lapse \cap ({"push", "commit", "reader", "skipped"} \X {t}) # {}

\* A task is merged once, unless it was re-opened or the process died between the
\* merge and its record.
MergedOnce ==
    \A t \in Tasks :
        Len(git[t].merged) > 1 => lapse \cap ({"torn", "reopened"} \X {t}) # {}

Work(t) == Range(git[t].local) \cup Range(git[t].remote) \cup Range(git[t].merged)

\* The branch of a task, local, pushed or merged, holds no work of another task,
\* unless two probes of concurrent chains had their changes in the stash of the
\* repository at the same time; an entry a crash left there does no harm.
NoWorkOfOthersUnlessProbed ==
    \A t \in Tasks : \A c \in Work(t) : c.of = t \/ <<"probe", t>> \in lapse

\* "Any non-zero stage blocks that task": what a sweep is through with, and no human
\* has moved meanwhile, is done with its merge, or counted as blocked and parked; a
\* merge that a parallel sweep was refused is only counted.
SweepSettles ==
    \A t \in queue :
        sweep # "off" /\ pc[t] = "idle" /\ t \notin todo \cup ready =>
            \/ task[t].state = "done" /\ git[t].merged # <<>>
            \/ t \in failed /\ (task[t].state = "blocked" \/ sweep = "parallel")

\* A sweep ends: the fix loop and the retries are bounded.
SweepEnds == sweep # "off" ~> sweep = "off"
=============================================================================
