------------------------------ MODULE Autopilot ------------------------------
(***************************************************************************)
(* chalk autopilot and chalk loop (lib/autopilot.mjs, lib/loop.mjs), as    *)
(* schedules start them: every round pulls the open issues into the        *)
(* backlog, takes the single-flight lock, asks the doctor, sweeps the      *)
(* pipeline and lets the retro agent file issues for the next round.       *)
(* A chain of the pipeline is one step here: Pipeline has its stages.      *)
(***************************************************************************)
EXTENDS Naturals, Sequences, FiniteSets

CONSTANTS
    Runs,         \* processes that run autopilot or loop
    ReviewerGate, \* a reviewer is bound and a review cadence is set
    HasVerify,    \* protocol.verify has a gate
    Retro,        \* a retro agent is bound
    MaxRounds,    \* --max-rounds
    MaxChains,    \* --max: tasks in a sweep
    Commands,     \* what humans do to tasks meanwhile: see AllCommands
    MaxFiled,     \* retro --max-issues
    MaxIssues,    \* bound: issues on GitHub
    MaxTasks,     \* bound: tasks
    MaxMoves      \* bound: kills, and what humans do to tasks

AllCommands == {"spec", "lock", "start", "block", "unblock"}

ASSUME AutopilotAssumption ==
    /\ Commands \subseteq AllCommands
    /\ {ReviewerGate, HasVerify, Retro} \subseteq BOOLEAN
    /\ {MaxRounds, MaxChains} \subseteq Nat \ {0}
    /\ {MaxFiled, MaxIssues, MaxTasks, MaxMoves} \subseteq Nat

VARIABLES
    issues,   \* GitHub: whether the issue is open
    tasks,    \* tasks.json: the tasks made from issues
    lock,     \* autopilot.lock: "none", "fresh", "stale" (or unreadable)
    run,      \* per process: how far it is, and what it has read
    unseen,   \* history: tasks that came to be worked behind the doctor's back
    lapse,    \* history: "pulls": two of them overlapped; "lost": the lock did not
              \* keep out another run
    moves     \* kills and human commands so far

history == <<unseen, lapse, moves>>
vars == <<issues, tasks, lock, run, history>>

States == {"todo", "specd", "in-progress", "blocked", "done"}

\* A task made from an issue: whether it has criteria, whether a test is locked,
\* and the state it was parked from.
Task == [issue : 1..MaxIssues, criteria : BOOLEAN, tested : BOOLEAN,
         state : States, blockedFrom : States \cup {"none"}]

\* busy: the round has imported or merged something; new: issues to import;
\* queue: tasks to sweep
Process == [at : {"off", "pull", "import", "look", "take", "doctor", "queue", "sweep",
                  "retro", "unlock"},
            round : 0..MaxRounds, busy : BOOLEAN, new : SUBSET Nat, queue : SUBSET Nat]
Off == [at |-> "off", round |-> 0, busy |-> FALSE, new |-> {}, queue |-> {}]

Init ==
    /\ issues = <<>> /\ tasks = <<>> /\ lock = "none"
    /\ run = [p \in Runs |-> Off]
    /\ unseen = {} /\ lapse = {} /\ moves = 0

At(p, at) == run[p].at = at
Now(p, at) == run' = [run EXCEPT ![p].at = at]
Others(p, at) == {q \in Runs \ {p} : At(q, at)}
\* Within the try block of runAutopilot.
Sweeping == {p \in Runs : run[p].at \in {"doctor", "queue", "sweep", "retro", "unlock"}}
Open == {i \in DOMAIN issues : issues[i]}
-----------------------------------------------------------------------------
(* A schedule starts a loop, or an autopilot: one round without the pull.  *)

StartLoop(p) ==
    /\ At(p, "off")
    /\ run' = [run EXCEPT ![p] = [Off EXCEPT !.at = "pull", !.round = 1]]
    /\ UNCHANGED <<issues, tasks, lock, history>>

StartAutopilot(p) ==
    /\ At(p, "off")
    /\ run' = [run EXCEPT ![p] = [Off EXCEPT !.at = "look", !.round = MaxRounds]]
    /\ UNCHANGED <<issues, tasks, lock, history>>

-----------------------------------------------------------------------------
(* chalk issue pull                                                        *)

\* Mutant: the issues of parked tasks are not counted.
ImportedActive == {tasks[k].issue : k \in {j \in DOMAIN tasks : tasks[j].state # "blocked"}}

Imported == {tasks[k].issue : k \in DOMAIN tasks}

\* The issues that are open and have no task are found once; when gh fails the
\* loop goes on.
Pull(p) ==
    /\ At(p, "pull")
    /\ \/ /\ run' = [run EXCEPT ![p].at = "import", ![p].new = Open \ Imported]
          /\ lapse' = IF \E q \in Others(p, "import") : run[q].new \cap run'[p].new # {}
                      THEN lapse \cup {"pulls"} ELSE lapse
       \/ Now(p, "look") /\ UNCHANGED lapse
    /\ UNCHANGED <<issues, tasks, lock, unseen, moves>>

\* upsertTask, one issue after the other; one without a checklist is a todo.
Import(p) ==
    /\ At(p, "import") /\ Len(tasks) < MaxTasks
    /\ \E i \in run[p].new, listed \in BOOLEAN :
          /\ tasks' = Append(tasks, [issue |-> i, criteria |-> listed, tested |-> FALSE,
                                     state |-> IF listed THEN "specd" ELSE "todo",
                                     blockedFrom |-> "none"])
          /\ run' = [run EXCEPT ![p].new = @ \ {i}, ![p].busy = TRUE]
    /\ unseen' = IF \E q \in Runs : At(q, "queue") THEN unseen \cup {Len(tasks')} ELSE unseen
    /\ UNCHANGED <<issues, lock, lapse, moves>>

ImportEnd(p) ==
    /\ At(p, "import") /\ (run[p].new = {} \/ Len(tasks) = MaxTasks)
    /\ run' = [run EXCEPT ![p].at = "look", ![p].new = {}]
    /\ UNCHANGED <<issues, tasks, lock, history>>

-----------------------------------------------------------------------------
(* runAutopilot                                                            *)

\* Mutant: the run that skips leaves through the finally block.
LookInTry(p) ==
    /\ At(p, "look")
    /\ run' = [run EXCEPT ![p].at = IF lock = "fresh" THEN "unlock" ELSE "take",
                          ![p].round = IF lock = "fresh" THEN MaxRounds ELSE @]
    /\ UNCHANGED <<issues, tasks, lock, history>>

\* Mutant: any lock is respected, however old.
LookForever(p) ==
    /\ At(p, "look")
    /\ run' = [run EXCEPT ![p] = IF lock # "none" THEN Off ELSE [@ EXCEPT !.at = "take"]]
    /\ UNCHANGED <<issues, tasks, lock, history>>

\* A fresh lock ends the run, and the loop; a stale one, or one that cannot be
\* read, does not.
Look(p) ==
    /\ At(p, "look")
    /\ run' = [run EXCEPT ![p] = IF lock = "fresh" THEN Off ELSE [@ EXCEPT !.at = "take"]]
    /\ UNCHANGED <<issues, tasks, lock, history>>

\* The lock is written, whether or not another run has written it since.
Take(p) ==
    /\ At(p, "take")
    /\ lock' = "fresh"
    /\ Now(p, "doctor")
    /\ lapse' = IF Others(p, "take") # {} THEN lapse \cup {"lost"} ELSE lapse
    /\ UNCHANGED <<issues, tasks, unseen, moves>>

\* runnableTasks: tasks of issues have no dependencies; a todo is none of them.
Runnable == {k \in DOMAIN tasks : tasks[k].state = "specd"}
Testless == {k \in Runnable : ~tasks[k].tested}

\* Mutant: a task without a test is a warning, reviewer or not.
BacklogWarns == ~ReviewerGate /\ Runnable # {} /\ ~HasVerify

\* What runDoctor has to say of level fail about the backlog.
BacklogFails == ~ReviewerGate /\ (Testless # {} \/ (Runnable # {} /\ ~HasVerify))

\* What the doctor finds on the host that is of level fail: the toolchain, GitHub,
\* the version of the spine, the agents, and held-out files that git tracks when
\* the executor works in a checkout of its own.
Host == [git : BOOLEAN, gh : BOOLEAN, repo : BOOLEAN, authed : BOOLEAN, newer : BOOLEAN,
         executor : BOOLEAN, problems : BOOLEAN, leaked : BOOLEAN, worktrees : BOOLEAN]

HostFails(h) ==
    \/ ~h.git \/ ~h.gh \/ ~h.repo \/ ~h.authed
    \/ h.newer
    \/ ~h.executor \/ h.problems
    \/ h.repo /\ h.leaked /\ h.worktrees

\* runDoctor
Findings == {HostFails(h) : h \in Host}

Doctor(p) ==
    /\ At(p, "doctor")
    /\ \E found \in Findings :
          LET fails == found \/ BacklogFails IN
          run' = [run EXCEPT ![p].at = IF fails THEN "unlock" ELSE "queue",
                             ![p].round = IF fails THEN MaxRounds ELSE @]
    /\ UNCHANGED <<issues, tasks, lock, history>>

Waiting == {k \in DOMAIN tasks : tasks[k].state \notin {"done", "blocked"}}

\* The queue is walked, then comes the retro.
AfterChain(queue) == IF queue # {} THEN "sweep" ELSE IF Retro THEN "retro" ELSE "unlock"

\* runPipeline: the first tasks of issues that are not done or blocked, a todo too.
Queue(p) ==
    /\ At(p, "queue")
    /\ LET queue == {k \in Waiting : Cardinality({j \in Waiting : j < k}) < MaxChains} IN
       run' = [run EXCEPT ![p].queue = queue, ![p].at = AfterChain(queue)]
    /\ UNCHANGED <<issues, tasks, lock, history>>

NextOf(p) == CHOOSE k \in run[p].queue : \A j \in run[p].queue : k <= j

\* Gate P1 of chalk work.
Specified(t) == t.criteria \/ t.tested
Workable(t) == t.state = "in-progress" \/ (t.state \in {"todo", "specd"} /\ Specified(t))

\* What chalk block makes of it, which refuses a done task.
Parked(t, from) ==
    IF t.state = "done" THEN t ELSE [t EXCEPT !.state = "blocked", !.blockedFrom = from]

\* A chain is merged, which closes the issue (one that is done already passes), or
\* its task is parked, from the state work may have brought it to.
Chain(p) ==
    /\ At(p, "sweep")
    /\ LET k == NextOf(p)
           rest == run[p].queue \ {k}
           Ends(t, merged) ==
               /\ tasks' = [tasks EXCEPT ![k] = t]
               /\ run' = [run EXCEPT ![p].queue = rest, ![p].at = AfterChain(rest),
                                     ![p].busy = @ \/ merged]
       IN  \/ /\ Workable(tasks[k]) \/ tasks[k].state = "done"
              /\ Ends([tasks[k] EXCEPT !.state = "done"], TRUE)
              /\ issues' = [issues EXCEPT ![tasks[k].issue] = FALSE]
           \/ /\ \E from \in {tasks[k].state} \cup
                              (IF Workable(tasks[k]) THEN {"in-progress"} ELSE {}) :
                    Ends(Parked(tasks[k], from), FALSE)
              /\ UNCHANGED issues
    /\ UNCHANGED <<lock, history>>

\* chalk retro files what its agent proposes above the floor and is not open yet;
\* it may fail, which nobody notices.
RetroRuns(p) ==
    /\ At(p, "retro")
    /\ \E n \in 0..MaxFiled :
          /\ Len(issues) + n <= MaxIssues
          /\ issues' = issues \o [i \in 1..n |-> TRUE]
    /\ Now(p, "unlock")
    /\ UNCHANGED <<tasks, lock, history>>

\* The next round of the loop.  It ends with its rounds, or when one has brought
\* in nothing and merged nothing; whether the retro converged is only reported.
NextRound(r) ==
    IF r.round = MaxRounds \/ ~r.busy THEN Off
    ELSE [Off EXCEPT !.at = "pull", !.round = r.round + 1]

\* The finally block removes the file, whoever wrote it.
Unlock(p) ==
    /\ At(p, "unlock")
    /\ lock' = "none"
    /\ run' = [run EXCEPT ![p] = NextRound(@)]
    /\ UNCHANGED <<issues, tasks, history>>

-----------------------------------------------------------------------------
(* Time, kills, humans.                                                    *)

\* Two hours have passed since the lock was written.
Tick ==
    /\ lock = "fresh"
    /\ lock' = "stale"
    /\ lapse' = IF Sweeping # {} THEN lapse \cup {"lost"} ELSE lapse
    /\ UNCHANGED <<issues, tasks, run, unseen, moves>>

\* A run killed while it writes the lock may leave an empty file, one killed in
\* a sweep a task in progress.
Kill(p) ==
    /\ ~At(p, "off") /\ moves < MaxMoves
    /\ moves' = moves + 1
    /\ run' = [run EXCEPT ![p] = Off]
    /\ lock' \in (IF At(p, "take") THEN {lock, "stale"} ELSE {lock})
    /\ \/ UNCHANGED tasks
       \/ /\ At(p, "sweep") /\ Workable(tasks[NextOf(p)])
          /\ tasks' = [tasks EXCEPT ![NextOf(p)].state = "in-progress"]
    /\ UNCHANGED <<issues, unseen, lapse>>

OpenIssue ==
    /\ Len(issues) < MaxIssues
    /\ issues' = Append(issues, TRUE)
    /\ UNCHANGED <<tasks, lock, run, history>>

\* A run has heard its doctor, and will take the task into its queue or has it there.
Behind(k) == \E q \in Runs : At(q, "queue") \/ k \in run[q].queue

\* What a human makes of a task: spec --criterion, spec --test, start, block,
\* unblock.
Changed(t, c) ==
    CASE c = "spec"    -> [t EXCEPT !.criteria = TRUE, !.state = IF @ = "todo" THEN "specd" ELSE @]
      [] c = "lock"    -> [t EXCEPT !.tested = TRUE, !.state = IF @ = "todo" THEN "specd" ELSE @]
      [] c = "start"   -> [t EXCEPT !.state = "in-progress"]
      [] c = "block"   -> Parked(t, t.state)
      [] c = "unblock" -> [t EXCEPT !.state = IF t.blockedFrom = "none" THEN "specd" ELSE t.blockedFrom,
                                    !.blockedFrom = "none"]

\* Nothing a doctor sees is a task that is started, one that is unblocked to a todo
\* with criteria, and one that becomes workable when the doctor has been heard.
Command(k, c) ==
    /\ moves < MaxMoves /\ moves' = moves + 1
    /\ c = "start" => tasks[k].state # "done" /\ Specified(tasks[k])
    /\ c = "unblock" => tasks[k].state = "blocked"
    /\ tasks' = [tasks EXCEPT ![k] = Changed(@, c)] /\ tasks' # tasks
    /\ unseen' = IF /\ ~tasks'[k].tested
                    /\ \/ c = "start"
                       \/ tasks'[k].state = "todo" /\ tasks'[k].criteria
                       \/ c \in {"spec", "unblock"} /\ Behind(k)
                 THEN unseen \cup {k} ELSE unseen
    /\ UNCHANGED <<issues, lock, run, lapse>>

Started(p) == StartLoop(p) \/ StartAutopilot(p)

Step(p) ==
    \/ Pull(p) \/ Import(p) \/ ImportEnd(p) \/ Look(p) \/ Take(p)
    \/ Doctor(p) \/ Queue(p) \/ Chain(p)
    \/ RetroRuns(p) \/ Unlock(p)

Human == OpenIssue \/ \E k \in DOMAIN tasks, c \in Commands : Command(k, c)

Next ==
    \/ \E p \in Runs : Started(p) \/ Step(p) \/ Kill(p)
    \/ Tick \/ Human

Spec == Init /\ [][Next]_vars

\* The schedule goes on, every subprocess returns, time passes.
FairSpec ==
    /\ Spec /\ WF_vars(Tick)
    /\ \A p \in Runs : WF_vars(Started(p) \/ Step(p))

-----------------------------------------------------------------------------
(* Properties.                                                             *)

TypeOK ==
    /\ issues \in Seq(BOOLEAN) /\ Len(issues) <= MaxIssues
    /\ tasks \in Seq(Task) /\ Len(tasks) <= MaxTasks
    /\ lock \in {"none", "fresh", "stale"}
    /\ run \in [Runs -> Process]
    /\ \A p \in Runs : /\ run[p].queue \subseteq DOMAIN tasks
                       /\ run[p].new \subseteq DOMAIN issues
                       /\ At(p, "sweep") => run[p].queue # {}
    /\ unseen \subseteq DOMAIN tasks /\ lapse \subseteq {"pulls", "lost"}
    /\ moves \in 0..MaxMoves

\* "Overlapping scheduled runs can't stomp each other."
OneSweep == Cardinality(Sweeping) <= 1

\* Two runs sweep at once only after one looked at the lock before the other wrote
\* it, or after a run has outlived its own lock.  A kill is no such reason.
OverlapExplained == OneSweep \/ "lost" \in lapse

\* "One task per issue, idempotent", unless two pulls ran at once.
ImportedOnce ==
    "pulls" \in lapse \/ Cardinality(Imported) = Len(tasks)

\* What the schedule has merged did not pass vacuously: it has a locked test, or
\* the reviewer is the backstop, or it came to be worked behind the doctor's back:
\* started by hand, unblocked to a todo that got its criteria while it was parked,
\* or imported, specified or unblocked after the doctor of a run had looked.
MergedIsBacked ==
    \A k \in DOMAIN tasks :
        tasks[k].state = "done" => ReviewerGate \/ tasks[k].tested \/ k \in unseen

\* "It never runs away": every scheduled run ends; and no lock a dead run has left
\* keeps the schedule from getting to its doctor.
ScheduleGoesOn ==
    /\ \A p \in Runs : []<>At(p, "off")
    /\ []<>(\E p \in Runs : At(p, "doctor"))
=============================================================================
