------------------------------ MODULE Release --------------------------------
(***************************************************************************)
(* chalk release in a git repository (bin/chalk.mjs, lib/release.mjs): the *)
(* CHANGELOG and the version, the release commit of --commit, the deploy   *)
(* branch of --promote, the tag, the marking of the tasks, and the         *)
(* resumption of a run that died.  Each write, commit and remote call is a *)
(* step: the process may be killed before it, and the call may fail.       *)
(*                                                                         *)
(* Versions are numbers.  Of the history only release commits matter: a    *)
(* point of a branch is the number of release commits it contains.         *)
(***************************************************************************)
EXTENDS Naturals, Sequences, SequencesExt, FiniteSets

CONSTANTS
    Tasks,      \* the tasks of the backlog
    Modes,      \* the ways the project may release: see Mode
    PerSecond,  \* instants in a second, the precision of a commit's date
    MaxPolls,   \* github.ciPollAttempts
    MaxRev,     \* bound: deliveries of a task
    MaxClock,   \* bound: instants that pass by themselves
    MaxFaults   \* bound: kills and failed calls

\* flow: plain, --commit or --promote; tag: without --no-tag; node: there is a
\* package.json
Mode == [flow : {"plain", "commit", "promote"}, tag : BOOLEAN, node : BOOLEAN]

ASSUME ReleaseAssumption ==
    /\ Modes \subseteq Mode /\ Modes # {}
    /\ PerSecond \in Nat \ {0}
    /\ {MaxPolls, MaxRev, MaxClock, MaxFaults} \subseteq Nat

VARIABLES
    mode,    \* how this project releases
    task,    \* tasks.json: state done, doneAt, the delivery, the marker released
    files,   \* the working tree: package.json's version, CHANGELOG's sections
    commits, \* the release commits of the integration branch: version, date
    tags,    \* the tags of the clone: version, point
    origin,  \* the remote: its branch, the deploy branch, its tags
    heads,   \* versions with a "Released v" heading in decisions.md
    run,     \* the handler at work and what it read
    clock, faults,
    torn,    \* history: tasks of runs that died where no re-run resumes them
    racing   \* history: tasks done while a run was before its commit

repo == <<files, commits, tags, origin>>
history == <<torn, racing>>
vars == <<mode, task, repo, heads, run, clock, faults, history>>

Record0 == [done |-> FALSE, doneAt |-> 0, rev |-> 0, released |-> 0]
Idle == [at |-> "idle", read |-> <<>>, left |-> {}, v |-> 0, point |-> 0, polls |-> 0]

Init ==
    /\ mode \in Modes
    /\ task = [t \in Tasks |-> Record0]
    /\ files = [pkg |-> 0, log |-> <<>>] /\ commits = <<>> /\ tags = {}
    /\ origin = [branch |-> 0, deploy |-> 0, tags |-> {}]
    /\ heads = {} /\ run = Idle /\ clock = 0 /\ faults = 0
    /\ torn = {} /\ racing = {}

Promote == mode.flow = "promote"
WithCommit == mode.flow # "plain"
WantTag == mode.tag /\ ~Promote
Tagged(set, v) == \E x \in set : x.v = v

\* The date of a commit has seconds; doneAt is finer.
SecondOf(instant) == instant - (instant % PerSecond)

\* releasableTasks
Releasable == {t \in Tasks : task[t].done /\ task[t].released = 0}

\* package.json's version, else the highest tag
Current ==
    IF mode.node THEN files.pkg
    ELSE CHOOSE v \in {x.v : x \in tags} \cup {0} : \A x \in tags : x.v <= v

\* Mutant: an interrupted run is never resumed.
NoOrphan == FALSE

\* The newest release commit has no Released heading, nor a tag unless the tag
\* comes with the promotion: its run was interrupted.
Orphan ==
    /\ WithCommit /\ commits # <<>>
    /\ Last(commits).v \notin heads
    /\ Promote \/ ~Tagged(tags, Last(commits).v)

-----------------------------------------------------------------------------
(* The handler.  A step leaves the handler at the next one.                *)

Goto(at) == run' = [run EXCEPT !.at = at]

AfterCommit == IF Promote THEN "fetch" ELSE IF WantTag THEN "tag" ELSE "mark"

\* Mutant: a resumed run marks every releasable task.
ResumeAll ==
    /\ run = Idle /\ Releasable # {} /\ Orphan
    /\ run' = [Idle EXCEPT !.at = AfterCommit, !.read = task, !.left = Releasable,
                           !.v = Last(commits).v, !.point = Len(commits)]
    /\ UNCHANGED <<mode, task, repo, heads, clock, faults, history>>

\* A resumed run marks the tasks done before the commit it finds.
Resume ==
    /\ run = Idle /\ Releasable # {} /\ Orphan
    /\ run' = [Idle EXCEPT
                 !.at = AfterCommit,
                 !.read = task,
                 !.left = {t \in Releasable : task[t].doneAt <= Last(commits).date},
                 !.v = Last(commits).v,
                 !.point = Len(commits)]
    /\ UNCHANGED <<mode, task, repo, heads, clock, faults, history>>

Collides(v) ==
    \/ WantTag /\ Tagged(tags, v)
    \/ Promote /\ (Tagged(tags, v) \/ Tagged(origin.tags, v))

\* bumpVersion takes the next version.  One that collides is refused before
\* anything is written, and the human names one past it (--version, --major).
Begin ==
    /\ run = Idle /\ Releasable # {} /\ ~Orphan
    /\ \E v \in {Current + 1, Current + 2} :
          /\ ~Collides(v)
          /\ v = Current + 2 => Collides(Current + 1)
          /\ run' = [Idle EXCEPT
                       !.at = IF WantTag /\ ~WithCommit THEN "tag" ELSE "changelog",
                       !.read = task, !.left = Releasable,
                       !.v = v, !.point = Len(commits)]
    /\ UNCHANGED <<mode, task, repo, heads, clock, faults, history>>

\* First in the plain flow, after the release commit with --commit.
Tag ==
    /\ run.at = "tag"
    /\ tags' = tags \cup {[v |-> run.v, point |-> run.point]}
    /\ Goto(IF WithCommit THEN "mark" ELSE "changelog")
    /\ UNCHANGED <<mode, task, files, commits, origin, heads, clock, faults, history>>

Section == [v |-> run.v, items |-> {[task |-> t, rev |-> run.read[t].rev] : t \in run.left}]

Changelog ==
    /\ run.at = "changelog"
    /\ files' = [files EXCEPT !.log = <<Section>> \o @]
    /\ Goto(IF mode.node THEN "package" ELSE IF WithCommit THEN "commit" ELSE "mark")
    /\ UNCHANGED <<mode, task, commits, tags, origin, heads, clock, faults, history>>

Package ==
    /\ run.at = "package"
    /\ files' = [files EXCEPT !.pkg = run.v]
    /\ Goto(IF WithCommit THEN "commit" ELSE "mark")
    /\ UNCHANGED <<mode, task, commits, tags, origin, heads, clock, faults, history>>

\* What is done after the commit is done at a later instant.
Commit ==
    /\ run.at = "commit"
    /\ commits' = Append(commits, [v |-> run.v, date |-> SecondOf(clock)])
    /\ clock' = clock + 1
    /\ run' = [run EXCEPT !.at = AfterCommit, !.point = Len(commits')]
    /\ UNCHANGED <<mode, task, files, tags, origin, heads, faults, history>>

\* A promotion that was merged is not redone.
Fetch ==
    /\ run.at = "fetch"
    /\ Goto(IF origin.deploy >= run.point THEN "retag" ELSE "push")
    /\ UNCHANGED <<mode, task, repo, heads, clock, faults, history>>

\* Then the promotion PR is found or created.
Push ==
    /\ run.at = "push"
    /\ origin' = [origin EXCEPT !.branch = Len(commits)]
    /\ Goto("ci")
    /\ UNCHANGED <<mode, task, files, commits, tags, heads, clock, faults, history>>

\* Mutant: CI is waited for as long as it is pending.
PollForever ==
    /\ run.at = "ci"
    /\ run' = [run EXCEPT !.polls = 1 - @]
    /\ UNCHANGED <<mode, task, repo, heads, clock, faults, history>>

\* Pending checks are polled a bounded number of times.
CiPending ==
    /\ run.at = "ci" /\ run.polls < MaxPolls
    /\ run' = [run EXCEPT !.polls = @ + 1]
    /\ UNCHANGED <<mode, task, repo, heads, clock, faults, history>>

CiGreen ==
    /\ run.at = "ci" /\ Goto("merge")
    /\ UNCHANGED <<mode, task, repo, heads, clock, faults, history>>

Merged == origin' = [origin EXCEPT !.deploy = origin.branch]

MergePromotion ==
    /\ run.at = "merge" /\ Merged /\ Goto("retag")
    /\ UNCHANGED <<mode, task, files, commits, tags, heads, clock, faults, history>>

\* A tag left behind by an earlier try is re-pointed at the deploy branch; one
\* that origin has stays.
Retag ==
    /\ run.at = "retag"
    /\ IF Tagged(origin.tags, run.v)
       THEN Goto("mark") /\ UNCHANGED tags
       ELSE /\ Goto("pushtag")
            /\ tags' = {x \in tags : x.v # run.v} \cup {[v |-> run.v, point |-> origin.deploy]}
    /\ UNCHANGED <<mode, task, files, commits, origin, heads, clock, faults, history>>

\* Mutant: the tag is not pushed.
PushNoTag ==
    /\ run.at = "pushtag" /\ Goto("mark")
    /\ UNCHANGED <<mode, task, repo, heads, clock, faults, history>>

PushTag ==
    /\ run.at = "pushtag"
    /\ origin' = [origin EXCEPT !.tags = @ \cup {x \in tags : x.v = run.v}]
    /\ Goto("mark")
    /\ UNCHANGED <<mode, task, files, commits, tags, heads, clock, faults, history>>

\* upsertTask of the record the handler read, one task at a time.
Mark ==
    /\ run.at = "mark"
    /\ \E t \in run.left :
          /\ task' = [task EXCEPT ![t] = [run.read[t] EXCEPT !.released = run.v]]
          /\ run' = [run EXCEPT !.left = @ \ {t}]
    /\ UNCHANGED <<mode, repo, heads, clock, faults, history>>

\* appendDecision writes the heading that completes the release.
Finish ==
    /\ run.at = "mark" /\ run.left = {}
    /\ heads' = heads \cup {run.v}
    /\ run' = Idle
    /\ UNCHANGED <<mode, task, repo, clock, faults, history>>

-----------------------------------------------------------------------------
(* Failures, and the tasks meanwhile.                                      *)

\* The tasks that a later run will put in a section again: a run that dies
\* between the CHANGELOG and the commit leaves its section behind; after the
\* tag only a promotion is resumed; and a resumed run leaves out the tasks done
\* in the very second of the commit.
Lost ==
    IF run.at \in {"package", "commit"} \/ (run.at = "mark" /\ (WantTag \/ ~WithCommit))
    THEN run.left
    ELSE IF WithCommit /\ run.at # "changelog"
         THEN {t \in run.left : run.read[t].doneAt > Last(commits).date}
         ELSE {}

Dies == run' = Idle /\ torn' = torn \cup Lost

\* The process is killed, or a call of git or gh fails, having done nothing,
\* and the handler die()s.
Die ==
    /\ run # Idle /\ faults < MaxFaults /\ faults' = faults + 1
    /\ Dies
    /\ UNCHANGED <<mode, task, repo, heads, clock, racing>>

\* gh pr merge merges and the process dies before it knows.
DieMerged ==
    /\ run.at = "merge" /\ faults < MaxFaults /\ faults' = faults + 1
    /\ Merged /\ Dies
    /\ UNCHANGED <<mode, task, files, commits, tags, heads, clock, racing>>

\* CI is red, or still pending after the last poll.
CiGivesUp ==
    /\ run.at = "ci" /\ faults < MaxFaults /\ faults' = faults + 1
    /\ Dies
    /\ UNCHANGED <<mode, task, repo, heads, clock, racing>>

\* chalk done, also after a re-opening
Done(t) ==
    /\ ~task[t].done /\ task[t].rev < MaxRev
    /\ task' = [task EXCEPT ![t].done = TRUE, ![t].doneAt = clock, ![t].rev = @ + 1]
    /\ racing' = racing \cup (IF run.at \in {"tag", "changelog", "package", "commit"}
                              THEN {t} ELSE {})
    /\ UNCHANGED <<mode, repo, heads, run, clock, faults, torn>>

\* chalk pending redirect of a done task: the marker stays.
Reopen(t) ==
    /\ task[t].done
    /\ task' = [task EXCEPT ![t].done = FALSE]
    /\ UNCHANGED <<mode, repo, heads, run, clock, faults, history>>

Tick ==
    /\ clock < MaxClock /\ clock' = clock + 1
    /\ UNCHANGED <<mode, task, repo, heads, run, faults, history>>

Handler ==
    \/ Resume \/ Begin \/ Tag \/ Changelog \/ Package \/ Commit
    \/ Fetch \/ Push \/ CiPending \/ CiGreen \/ MergePromotion \/ Retag \/ PushTag
    \/ Mark \/ Finish

Next ==
    \/ Handler
    \/ Die \/ DieMerged \/ CiGivesUp \/ Tick
    \/ \E t \in Tasks : Done(t) \/ Reopen(t)

Spec == Init /\ [][Next]_vars

\* A handler that runs takes its next step, or dies.
FairSpec == Spec /\ WF_vars(run # Idle /\ Handler)

-----------------------------------------------------------------------------
(* Properties.                                                             *)

Places == {"tag", "changelog", "package", "commit", "fetch", "push", "ci", "merge", "retag",
           "pushtag", "mark"}
Delivered == [task : Tasks, rev : 0..MaxRev]
TaskState == [done : BOOLEAN, doneAt : Nat, rev : 0..MaxRev, released : Nat]
Running == [at : Places, read : [Tasks -> TaskState], left : SUBSET Tasks, v : Nat \ {0},
            point : Nat, polls : 0..MaxPolls]

\* The shape of the spine, the repository and the handler.
TypeOK ==
    /\ mode \in Modes
    /\ task \in [Tasks -> TaskState]
    /\ files \in [pkg : Nat, log : Seq([v : Nat, items : SUBSET Delivered])]
    /\ commits \in Seq([v : Nat \ {0}, date : Nat])
    /\ tags \subseteq [v : Nat, point : Nat]
    /\ origin \in [branch : Nat, deploy : Nat, tags : SUBSET [v : Nat, point : Nat]]
    /\ origin.deploy <= origin.branch /\ origin.branch <= Len(commits)
    /\ heads \subseteq Nat
    /\ run = Idle \/ run \in Running
    /\ clock \in Nat /\ faults \in 0..MaxFaults
    /\ torn \subseteq Tasks /\ racing \subseteq Tasks

\* Without package.json and with --no-tag nothing says what the current version
\* is: every release is the same version.
Versioned == mode.node \/ mode.tag \/ Promote

Sections(t, rev) ==
    {i \in DOMAIN files.log : [task |-> t, rev |-> rev] \in files.log[i].items}

\* "Marking each task released so it's idempotent", and "converges to ONE commit
\* + ONE tag": however often a release is killed and run again, a delivery is
\* told in one section of the CHANGELOG, except where no resumption reaches.
NotedOnce ==
    Versioned => \A t \in Tasks \ torn : \A rev \in 1..MaxRev :
                     Cardinality(Sections(t, rev)) <= 1

\* A task marked released in a version is told in that version's section, unless
\* it was done while the run was on its way to the commit: the resumption then
\* takes it for a part of that commit.
MarkedIsNoted ==
    \A t \in Tasks \ racing :
        task[t].released # 0 =>
            \E i \in DOMAIN files.log : /\ files.log[i].v = task[t].released
                                        /\ \E x \in files.log[i].items : x.task = t

\* "Work is marked released ONLY after the tag is on the remote", on a point of
\* the deploy branch whose newest release commit is that version; with --commit
\* the tag of the clone is on the release commit.
MarkedIsTagged ==
    \A t \in Tasks :
        LET v == task[t].released
            At(set) == \E x \in set : x.v = v /\ x.point # 0 /\ commits[x.point].v = v
        IN  v # 0 => /\ Promote => At(origin.tags)
                     /\ mode.flow = "commit" /\ WantTag => At(tags)
                     /\ mode.flow = "plain" /\ WantTag => Tagged(tags, v)

\* A release always ends: it never waits for CI for ever.
RunEnds == run # Idle ~> run = Idle

=============================================================================
