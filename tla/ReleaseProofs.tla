---------------------------- MODULE ReleaseProofs ----------------------------
(***************************************************************************)
(* Proofs about Release, for any tasks, ways to release, deliveries and    *)
(* faults.                                                                 *)
(***************************************************************************)
EXTENDS Release, FiniteSetTheorems, SequenceTheorems, TLAPS

-----------------------------------------------------------------------------
(* The inductive invariants.                                               *)

OnRemote == {"fetch", "push", "ci", "merge", "retag", "pushtag"}

\* The places of a handler whose section is in the CHANGELOG, and of one whose commit is
\* made.
Written == run.at \in {"package", "commit", "mark"} \cup OnRemote \/ (run.at = "tag" /\ WithCommit)
Committed == WithCommit /\ run.at \in {"tag", "mark"} \cup OnRemote

\* Each place belongs to a way to release.
Routed ==
    /\ run.at \in OnRemote => Promote
    /\ run.at = "tag" => WantTag
    /\ run.at = "commit" => WithCommit
    /\ run.at = "package" => mode.node

\* There is a highest tag.
Topped == \E m \in {x.v : x \in tags} \cup {0} : \A x \in tags : x.v <= m

\* A handler past its commit is at the newest release commit of the branch.
AtCommit ==
    Committed => /\ commits # <<>> /\ run.point = Len(commits) /\ Last(commits).v = run.v

RouteInv == Routed /\ Topped /\ AtCommit

\* A tag of version v is on a commit of that version.
TagAt(set, cs, v) == \E x \in set : x.v = v /\ x.point \in 1..Len(cs) /\ cs[x.point].v = v

\* What a version has to show before tasks are marked with it, of the way to release m, the
\* tags of the remote and of the clone, and the release commits.
Backed(m, remote, local, cs, v) ==
    /\ m.flow = "promote" => TagAt(remote, cs, v)
    /\ m.flow = "commit" /\ m.tag => TagAt(local, cs, v)
    /\ m.flow = "plain" /\ m.tag => Tagged(local, v)

\* What has been pushed, merged and tagged when a handler is where it is.
TagInv ==
    /\ run.at # "idle" => run.point <= Len(commits)
    /\ \A x \in tags : x.point <= Len(commits)
    /\ \A x \in origin.tags : x.point \in 1..Len(commits) /\ commits[x.point].v = x.v
    /\ run.at \in {"ci", "merge"} => origin.branch = Len(commits)
    /\ run.at \in {"retag", "pushtag"} => origin.deploy = Len(commits)
    /\ run.at = "pushtag" => /\ Tagged(tags, run.v)
                             /\ \A x \in tags : x.v = run.v => x.point = Len(commits)

\* So a handler marks with a version that is backed, and the marks stay backed.
MarkInv ==
    /\ mode.flow = "plain" /\ mode.tag /\ run.at \in {"changelog", "package"} => Tagged(tags, run.v)
    /\ run.at = "mark" => Backed(mode, origin.tags, tags, commits, run.v)
    /\ \A t \in Tasks : task[t].released # 0 =>
          Backed(mode, origin.tags, tags, commits, task[t].released)

\* Task t is told in the section of version v.
Told(log, t, v) == \E i \in 1..Len(log) : log[i].v = v /\ \E x \in log[i].items : x.task = t

\* Before its commit a handler has every task there is to release, and then has told them;
\* so whoever was done by the date of the newest commit is told in its section.
NotedInv ==
    /\ commits # <<>> => Last(commits).date < clock
    /\ run.at \in {"changelog", "package", "commit"} \/ (run.at = "tag" /\ ~WithCommit)
          => Releasable \ racing \subseteq run.left
    /\ Written => \A t \in run.left \ racing : Told(files.log, t, run.v)
    /\ commits # <<>> => \A t \in Releasable \ racing :
                            task[t].doneAt <= Last(commits).date
                               => Told(files.log, t, Last(commits).v)
    /\ \A t \in Tasks \ racing :
          task[t].released # 0 => Told(files.log, t, task[t].released)

\* The version of a run is new until it finishes: with a package.json above those before it,
\* without one above the tags, which every finished release has.
NewInv ==
    /\ run.at # "idle" => run.v \notin heads
    /\ mode.node => /\ \A h \in heads : h <= files.pkg
                    /\ \A i \in 1..Len(commits) : commits[i].v <= files.pkg
                    /\ run.at \in {"tag", "changelog", "package"} /\ ~Committed => files.pkg < run.v
                    /\ Written /\ run.at # "package" => run.v <= files.pkg
    /\ ~mode.node => \A h \in heads : Tagged(tags, h)
    /\ \A x \in origin.tags : Tagged(tags, x.v)
    /\ ~WantTag /\ ~Promote => tags = {}
    /\ WithCommit /\ WantTag /\ run.at \in {"changelog", "package", "commit", "tag"}
          => ~Tagged(tags, run.v)
    /\ run.at = "mark" /\ (WantTag \/ Promote) => Tagged(tags, run.v)

\* The delivery of task t with number rev is told in section i, and in some section.
Has(log, i, t, rev) == [task |-> t, rev |-> rev] \in log[i].items
Noted(log, t, rev) == \E i \in 1..Len(log) : Has(log, i, t, rev)

\* What the handler holds of the tasks it is to mark: they have no marker, and are as it read
\* them or have gone on.
HeldInv ==
    /\ run.at = "idle" => run.left = {}
    /\ \A t \in run.left :
          /\ task[t].released = 0
          /\ run.read[t].rev <= task[t].rev
          /\ run.read[t].rev = task[t].rev /\ task[t].done => run.read[t].doneAt = task[t].doneAt

\* A told delivery of a task that is not marked is one before the task's present one, or was
\* re-opened, or it is in the hands of the handler, or the next run resumes it.
Settled(t, rev) ==
    \/ rev < task[t].rev
    \/ rev = task[t].rev /\ ~task[t].done
    \/ /\ rev = task[t].rev
       /\ \/ Written /\ t \in run.left /\ rev = run.read[t].rev
          \/ run.at = "idle" /\ Orphan /\ task[t].doneAt <= Last(commits).date

SettledInv ==
    \A t \in Tasks \ torn, rev \in 0..MaxRev :
        Noted(files.log, t, rev) /\ task[t].released = 0 => Settled(t, rev)

\* So a handler tells what no section tells yet.
OnceInv ==
    \A t \in Tasks \ torn :
        /\ run.at # "idle" /\ ~Written /\ t \in run.left => ~Noted(files.log, t, run.read[t].rev)
        /\ \A rev \in 0..MaxRev : \A i, j \in 1..Len(files.log) :
              Has(files.log, i, t, rev) /\ Has(files.log, j, t, rev) => i = j

-----------------------------------------------------------------------------
(* Types.                                                                  *)

\* A date in seconds is not after its instant.
LEMMA SecondIsBefore ==
  ASSUME NEW c \in Nat
  PROVE  SecondOf(c) \in Nat /\ SecondOf(c) <= c
<1> DEFINE m == c % PerSecond
           k == PerSecond * (c \div PerSecond)
<1>1. m \in 0..(PerSecond - 1)
  BY ReleaseAssumption
<1>2. c = k + m
  BY ReleaseAssumption, SMT
<1>3. c \div PerSecond \in Nat
  BY ReleaseAssumption, SMT
<1>4. k \in Nat
  BY <1>3, ReleaseAssumption, SMT
<1> HIDE DEF m, k
<1>5. c - m \in Nat /\ c - m <= c
  BY <1>1, <1>2, <1>4, ReleaseAssumption
<1>6. QED
  BY <1>5 DEF SecondOf, m

\* The current version: without a package.json, the highest tag.
LEMMA CurrentIsTop ==
  ASSUME TypeOK, Topped
  PROVE  Current \in Nat /\ (~mode.node => \A x \in tags : x.v <= Current)
<1> DEFINE S == {x.v : x \in tags} \cup {0}
           top == CHOOSE v \in S : \A x \in tags : x.v <= v
<1>1. S \subseteq Nat
  BY DEF TypeOK
<1>2. top \in S /\ \A x \in tags : x.v <= top
  BY DEF Topped
<1>3. files.pkg \in Nat
  BY DEF TypeOK
<1> HIDE DEF top, S
<1>4. Current = IF mode.node THEN files.pkg ELSE top
  BY DEF Current, top, S
<1>5. QED
  BY <1>1, <1>2, <1>3, <1>4

LEMMA SectionTyped ==
  ASSUME TypeOK, run \in Running
  PROVE  Section \in [v : Nat, items : SUBSET Delivered]
<1>1. \A t \in run.left : t \in Tasks /\ run.read[t].rev \in 0..MaxRev
  BY DEF Running, TaskState
<1>2. QED
  BY <1>1 DEF Section, Delivered, Running

LEMMA LastOf ==
  ASSUME NEW S, NEW s \in Seq(S), s # <<>>
  PROVE  Last(s) = s[Len(s)] /\ Last(s) \in S /\ Len(s) \in Nat \ {0}
BY DEF Last

LEMMA Newest ==
  ASSUME TypeOK, commits # <<>>
  PROVE  /\ Last(commits) = commits[Len(commits)] /\ Len(commits) \in Nat \ {0}
         /\ Last(commits).v \in Nat \ {0} /\ Last(commits).date \in Nat
<1>1. commits \in Seq([v : Nat \ {0}, date : Nat])
  BY DEF TypeOK
<1>2. Last(commits) = commits[Len(commits)] /\ Last(commits) \in [v : Nat \ {0}, date : Nat]
      /\ Len(commits) \in Nat \ {0}
  BY <1>1, LastOf
<1>3. QED
  BY <1>2

LEMMA RunningAt ==
  ASSUME TypeOK, run.at # "idle"
  PROVE  run \in Running
BY DEF TypeOK, Idle

LEMMA Moved ==
  ASSUME run \in Running, NEW at \in Places
  PROVE  [run EXCEPT !.at = at] \in Running
BY DEF Running

\* What a step of the handler makes of the handler.
LEMMA HandlerRuns ==
  ASSUME TypeOK, Topped, Handler
  PROVE  run' = Idle \/ run' \in Running
<1>0. Len(commits) \in Nat /\ 0 \in 0..MaxPolls /\ AfterCommit \in Places
  BY ReleaseAssumption DEF TypeOK, AfterCommit, Places
<1>1. ASSUME NEW at \in Places, NEW left \in SUBSET Tasks, NEW v \in Nat \ {0},
             run' = [Idle EXCEPT !.at = at, !.read = task, !.left = left, !.v = v,
                                 !.point = Len(commits)]
      PROVE  run' \in Running
  BY <1>0, <1>1 DEF TypeOK, Idle, Running
<1>2. CASE Resume
  <2>1. Last(commits).v \in Nat \ {0}
    BY <1>2, Newest DEF Resume, Orphan
  <2>2. {t \in Releasable : task[t].doneAt <= Last(commits).date} \subseteq Tasks
    BY DEF Releasable
  <2>3. QED
    BY <1>0, <1>1, <1>2, <2>1, <2>2 DEF Resume
<1>3. CASE Begin
  <2>1. PICK v \in {Current + 1, Current + 2} :
           run' = [Idle EXCEPT !.at = IF WantTag /\ ~WithCommit THEN "tag" ELSE "changelog",
                               !.read = task, !.left = Releasable, !.v = v,
                               !.point = Len(commits)]
    BY <1>3 DEF Begin
  <2>2. v \in Nat \ {0} /\ Releasable \subseteq Tasks
    BY CurrentIsTop DEF Releasable
  <2>3. {"tag", "changelog"} \subseteq Places
    BY DEF Places
  <2>4. QED
    BY <1>1, <2>1, <2>2, <2>3
<1>4. CASE Tag \/ Changelog \/ Package \/ Fetch \/ Push \/ CiGreen \/ MergePromotion \/ Retag \/ PushTag
  <2>1. run \in Running
    BY <1>4, RunningAt DEF Tag, Changelog, Package, Fetch, Push, CiGreen, MergePromotion, Retag, PushTag
  <2>2. \E at \in Places : run' = [run EXCEPT !.at = at]
    BY <1>4 DEF Tag, Changelog, Package, Fetch, Push, CiGreen, MergePromotion, Retag, PushTag, Goto,
       Places
  <2>3. QED
    BY <2>1, <2>2, Moved
<1>5. CASE Commit
  <2>1. run \in Running /\ Len(commits') \in Nat
    BY <1>5, RunningAt DEF Commit, TypeOK
  <2>2. QED
    BY <1>0, <1>5, <2>1 DEF Commit, Running
<1>6. CASE CiPending
  <2>1. run \in Running /\ run.polls + 1 \in 0..MaxPolls
    BY <1>6, RunningAt, ReleaseAssumption DEF CiPending, Running
  <2>2. QED
    BY <1>6, <2>1 DEF CiPending, Running
<1>7. CASE Mark
  <2>1. run \in Running
    BY <1>7, RunningAt DEF Mark
  <2>2. QED
    BY <1>7, <2>1 DEF Mark, Running
<1>8. CASE Finish
  BY <1>8 DEF Finish
<1>9. QED
  BY <1>2, <1>3, <1>4, <1>5, <1>6, <1>7, <1>8 DEF Handler

\* What it makes of the tasks and the repository.
LEMMA HandlerWrites ==
  ASSUME TypeOK, Handler
  PROVE  /\ mode' = mode /\ task' \in [Tasks -> TaskState]
         /\ files' \in [pkg : Nat, log : Seq([v : Nat, items : SUBSET Delivered])]
         /\ commits' \in Seq([v : Nat \ {0}, date : Nat]) /\ clock' \in Nat
         /\ Len(commits) <= Len(commits') /\ Len(commits') \in Nat /\ Len(commits) \in Nat
<1>0. /\ task \in [Tasks -> TaskState] /\ clock \in Nat
      /\ files \in [pkg : Nat, log : Seq([v : Nat, items : SUBSET Delivered])]
      /\ commits \in Seq([v : Nat \ {0}, date : Nat]) /\ Len(commits) \in Nat
  BY DEF TypeOK
<1>1. CASE Resume \/ Begin \/ Tag \/ Fetch \/ Push \/ CiPending \/ CiGreen \/ MergePromotion \/ Retag
           \/ PushTag \/ Finish
  BY <1>0, <1>1 DEF Resume, Begin, Tag, Fetch, Push, CiPending, CiGreen, MergePromotion, Retag,
     PushTag, Finish, repo
<1>2. CASE Changelog
  <2>1. run \in Running
    BY <1>2, RunningAt DEF Changelog
  <2>2. <<Section>> \o files.log \in Seq([v : Nat, items : SUBSET Delivered])
    BY <1>0, <2>1, SectionTyped, ConcatProperties
  <2>3. files' \in [pkg : Nat, log : Seq([v : Nat, items : SUBSET Delivered])]
    BY <1>0, <1>2, <2>2 DEF Changelog
  <2>4. UNCHANGED <<mode, task, commits, clock>>
    BY <1>2 DEF Changelog
  <2>5. QED
    BY <1>0, <2>3, <2>4
<1>3. CASE Package
  <2>1. run.v \in Nat
    BY <1>3, RunningAt DEF Package, Running
  <2>2. files' \in [pkg : Nat, log : Seq([v : Nat, items : SUBSET Delivered])]
    BY <1>0, <1>3, <2>1 DEF Package
  <2>3. UNCHANGED <<mode, task, commits, clock>>
    BY <1>3 DEF Package
  <2>4. QED
    BY <1>0, <2>2, <2>3
<1>4. CASE Commit
  <2> DEFINE c == [v |-> run.v, date |-> SecondOf(clock)]
  <2>1. c \in [v : Nat \ {0}, date : Nat]
    BY <1>0, <1>4, RunningAt, SecondIsBefore DEF Commit, Running
  <2> HIDE DEF c
  <2>2. commits' = Append(commits, c)
    BY <1>4 DEF Commit, c
  <2>3. QED
    BY <1>0, <1>4, <2>1, <2>2 DEF Commit
<1>5. CASE Mark
  <2>1. run \in Running
    BY <1>5, RunningAt DEF Mark
  <2>2. PICK t \in run.left : task' = [task EXCEPT ![t] = [run.read[t] EXCEPT !.released = run.v]]
    BY <1>5 DEF Mark
  <2>3. t \in Tasks /\ run.read[t] \in TaskState /\ run.v \in Nat
    BY <2>1, <2>2 DEF Running
  <2>4. [run.read[t] EXCEPT !.released = run.v] \in TaskState
    BY <2>3 DEF TaskState
  <2>5. task' \in [Tasks -> TaskState]
    BY <1>0, <2>2, <2>3, <2>4
  <2>6. UNCHANGED <<mode, files, commits, clock>>
    BY <1>5 DEF Mark, repo
  <2>7. QED
    BY <1>0, <2>5, <2>6
<1>6. QED
  BY <1>1, <1>2, <1>3, <1>4, <1>5 DEF Handler

\* What it makes of the tags and the remote.
LEMMA HandlerPublishes ==
  ASSUME TypeOK, Handler
  PROVE  /\ tags' \subseteq [v : Nat, point : Nat] /\ heads' \subseteq Nat
         /\ origin' \in [branch : Nat, deploy : Nat, tags : SUBSET [v : Nat, point : Nat]]
         /\ origin'.deploy <= origin'.branch /\ origin'.branch <= Len(commits')
         /\ UNCHANGED <<faults, torn, racing>>
<1>0. /\ tags \subseteq [v : Nat, point : Nat] /\ heads \subseteq Nat
      /\ origin \in [branch : Nat, deploy : Nat, tags : SUBSET [v : Nat, point : Nat]]
      /\ origin.deploy <= origin.branch /\ origin.branch <= Len(commits)
      /\ Len(commits) \in Nat /\ Len(commits') \in Nat /\ Len(commits) <= Len(commits')
  BY HandlerWrites DEF TypeOK
<1>1. run.at # "idle" => run.v \in Nat /\ run.point \in Nat
  BY RunningAt DEF Running
<1>2. CASE Resume \/ Begin \/ Changelog \/ Package \/ Commit \/ Fetch \/ CiPending \/ CiGreen \/ Mark
  BY <1>0, <1>2 DEF Resume, Begin, Changelog, Package, Commit, Fetch, CiPending, CiGreen, Mark,
     repo, history
<1>3. CASE Tag \/ Retag
  <2>1. /\ [v |-> run.v, point |-> run.point] \in [v : Nat, point : Nat]
        /\ [v |-> run.v, point |-> origin.deploy] \in [v : Nat, point : Nat]
    BY <1>0, <1>1, <1>3 DEF Tag, Retag
  <2>2. tags' \subseteq tags \cup {[v |-> run.v, point |-> run.point], [v |-> run.v, point |-> origin.deploy]}
    BY <1>3 DEF Tag, Retag
  <2>3. UNCHANGED <<commits, origin, heads, faults, torn, racing>>
    BY <1>3 DEF Tag, Retag, history
  <2>4. QED
    BY <1>0, <2>1, <2>2, <2>3
<1>4. CASE Push
  BY <1>0, <1>4 DEF Push, history
<1>5. CASE MergePromotion
  BY <1>0, <1>5 DEF MergePromotion, Merged, history
<1>6. CASE PushTag
  <2>1. {x \in tags : x.v = run.v} \subseteq [v : Nat, point : Nat]
    BY <1>0
  <2>2. QED
    BY <1>0, <1>6, <2>1 DEF PushTag, history
<1>7. CASE Finish
  BY <1>0, <1>1, <1>7 DEF Finish, repo, history
<1>8. QED
  BY <1>2, <1>3, <1>4, <1>5, <1>6, <1>7 DEF Handler

LEMMA HandlerTyped ==
  ASSUME TypeOK, Topped, Handler
  PROVE  TypeOK'
BY HandlerRuns, HandlerWrites, HandlerPublishes DEF TypeOK

\* A run that ends without finishing.
Fails == Die \/ DieMerged \/ CiGivesUp

LEMMA FailsLosing ==
  ASSUME TypeOK, Fails
  PROVE  /\ run' = Idle /\ run \in Running /\ torn' = torn \cup Lost /\ Lost \subseteq Tasks
         /\ UNCHANGED <<mode, task, files, commits, tags, heads, clock, racing>>
         /\ UNCHANGED origin \/ (run.at = "merge" /\ Merged)
         /\ faults' \in 0..MaxFaults
<1>1. run \in Running
  BY RunningAt DEF Fails, Die, DieMerged, CiGivesUp, TypeOK
<1>2. run.left \subseteq Tasks
  BY <1>1 DEF Running
<1>3. Lost \subseteq Tasks
  BY <1>2 DEF Lost
<1>4. faults' \in 0..MaxFaults
  BY ReleaseAssumption DEF Fails, Die, DieMerged, CiGivesUp, TypeOK
<1>5. QED
  BY <1>1, <1>3, <1>4 DEF Fails, Die, DieMerged, CiGivesUp, Dies, repo

LEMMA OthersTyped ==
  ASSUME TypeOK, Fails \/ Tick \/ \E t \in Tasks : Done(t) \/ Reopen(t)
  PROVE  TypeOK'
<1>1. CASE Fails
  <2>1. /\ run' = Idle /\ torn' \subseteq Tasks /\ faults' \in 0..MaxFaults
        /\ UNCHANGED <<mode, task, files, commits, tags, heads, clock, racing>>
        /\ UNCHANGED origin \/ Merged
    BY <1>1, FailsLosing DEF TypeOK
  <2>2. /\ origin' \in [branch : Nat, deploy : Nat, tags : SUBSET [v : Nat, point : Nat]]
        /\ origin'.deploy <= origin'.branch /\ origin'.branch <= Len(commits)
    <3>1. Len(commits) \in Nat
      BY DEF TypeOK
    <3>2. /\ origin \in [branch : Nat, deploy : Nat, tags : SUBSET [v : Nat, point : Nat]]
          /\ origin.deploy <= origin.branch /\ origin.branch <= Len(commits)
      BY DEF TypeOK
    <3>3. CASE Merged
      <4>1. origin' = [origin EXCEPT !.deploy = origin.branch]
        BY <3>3 DEF Merged
      <4>2. QED
        BY <3>1, <3>2, <4>1
    <3>4. QED
      BY <2>1, <3>1, <3>2, <3>3
  <2>3. QED
    BY <2>1, <2>2 DEF TypeOK
<1>2. CASE Tick
  BY <1>2 DEF Tick, repo, history, TypeOK
<1>3. ASSUME NEW t \in Tasks, Done(t) PROVE TypeOK'
  <2> DEFINE x == [task[t] EXCEPT !.done = TRUE, !.doneAt = clock, !.rev = @ + 1]
  <2>1. task \in [Tasks -> TaskState] /\ task[t] \in TaskState /\ clock \in Nat
    BY DEF TypeOK
  <2>2. task[t].rev + 1 \in 0..MaxRev
    <3>1. MaxRev \in Nat /\ task[t].rev < MaxRev /\ task[t].rev \in 0..MaxRev
      BY <1>3, <2>1, ReleaseAssumption DEF Done, TaskState
    <3>2. QED
      BY <3>1
  <2>3. x \in TaskState
    BY <2>1, <2>2 DEF TaskState
  <2>4. task' = [task EXCEPT ![t] = x]
    BY <1>3, <2>1 DEF Done, TaskState
  <2> HIDE DEF x
  <2>5. task' \in [Tasks -> TaskState]
    BY <2>1, <2>3, <2>4
  <2>6. racing' \subseteq Tasks
    BY <1>3 DEF Done, TypeOK
  <2>7. UNCHANGED <<mode, files, commits, tags, origin, heads, run, clock, faults, torn>>
    BY <1>3 DEF Done, repo
  <2>8. QED
    BY <2>5, <2>6, <2>7 DEF TypeOK
<1>4. ASSUME NEW t \in Tasks, Reopen(t) PROVE TypeOK'
  <2>1. task' \in [Tasks -> TaskState]
    BY <1>4 DEF Reopen, TaskState, TypeOK
  <2>2. QED
    BY <1>4, <2>1 DEF Reopen, repo, history, TypeOK
<1>5. QED
  BY <1>1, <1>2, <1>3, <1>4

LEMMA InitTyped == Init => TypeOK
<1> SUFFICES ASSUME Init PROVE TypeOK
  OBVIOUS
<1> USE ReleaseAssumption DEF Init
<1>1. Record0 \in TaskState
  BY DEF Record0, TaskState
<1>2. QED
  BY <1>1 DEF TypeOK

-----------------------------------------------------------------------------
(* The steps, by what they do to the handler.                              *)

\* The handler takes its next step with what it has read.
Walks == Tag \/ Changelog \/ Package \/ Commit \/ Fetch \/ Push \/ CiPending \/ CiGreen \/ MergePromotion
         \/ Retag \/ PushTag
Starts == Resume \/ Begin
Backlog == \E t \in Tasks : Done(t) \/ Reopen(t)

LEMMA WalkLeads ==
  ASSUME TypeOK, Walks
  PROVE  /\ run \in Running /\ run' # Idle
         /\ run'.v = run.v /\ run'.left = run.left /\ run'.read = run.read
         /\ UNCHANGED <<mode, task, heads, torn, racing>>
         /\ Tag => run.at = "tag" /\ run'.at = IF WithCommit THEN "mark" ELSE "changelog"
         /\ Changelog => run.at = "changelog"
                         /\ run'.at = IF mode.node THEN "package" ELSE IF WithCommit THEN "commit" ELSE "mark"
         /\ Package => run.at = "package" /\ run'.at = IF WithCommit THEN "commit" ELSE "mark"
         /\ Commit => run.at = "commit" /\ run'.at = AfterCommit /\ run'.point = Len(commits')
         /\ Fetch => run.at = "fetch" /\ run'.at = IF origin.deploy >= run.point THEN "retag" ELSE "push"
         /\ Push => run.at = "push" /\ run'.at = "ci"
         /\ CiPending => run.at = "ci" /\ run'.at = "ci"
         /\ CiGreen => run.at = "ci" /\ run'.at = "merge"
         /\ MergePromotion => run.at = "merge" /\ run'.at = "retag"
         /\ Retag => run.at = "retag" /\ run'.at = IF Tagged(origin.tags, run.v) THEN "mark" ELSE "pushtag"
         /\ PushTag => run.at = "pushtag" /\ run'.at = "mark"
         /\ ~Commit => run'.point = run.point /\ UNCHANGED <<commits, clock>>
<1> USE DEF Walks
<1>1. run \in Running
  BY RunningAt DEF Tag, Changelog, Package, Commit, Fetch, Push, CiPending, CiGreen, MergePromotion,
     Retag, PushTag
<1>2. UNCHANGED <<mode, task, heads, torn, racing>> /\ (~Commit => UNCHANGED <<commits, clock>>)
  BY DEF Tag, Changelog, Package, Commit, Fetch, Push, CiPending, CiGreen, MergePromotion, Retag,
     PushTag, repo, history
<1>3. ASSUME NEW at, run' = [run EXCEPT !.at = at]
      PROVE  /\ run'.at = at /\ run'.v = run.v /\ run'.left = run.left /\ run'.read = run.read
             /\ run'.point = run.point
  BY <1>1, <1>3 DEF Running
<1>4. ASSUME CiPending
      PROVE  /\ run'.at = run.at /\ run'.v = run.v /\ run'.left = run.left /\ run'.read = run.read
             /\ run'.point = run.point /\ run.at = "ci"
  BY <1>1, <1>4 DEF CiPending, Running
<1>5. ASSUME Commit
      PROVE  /\ run'.at = AfterCommit /\ run'.v = run.v /\ run'.left = run.left /\ run'.read = run.read
             /\ run'.point = Len(commits') /\ run.at = "commit"
  BY <1>1, <1>5 DEF Commit, Running
<1>6. run'.at # "idle"
  BY <1>3, <1>4, <1>5 DEF Tag, Changelog, Package, Fetch, Push, CiGreen, MergePromotion, Retag, PushTag,
     Goto, AfterCommit
<1>7. run' # Idle
  BY <1>6 DEF Idle
<1>8. /\ run'.v = run.v /\ run'.left = run.left /\ run'.read = run.read
      /\ ~Commit => run'.point = run.point
  BY <1>3, <1>4, <1>5 DEF Tag, Changelog, Package, Fetch, Push, CiGreen, MergePromotion, Retag, PushTag, Goto
<1>9. /\ Tag => run.at = "tag" /\ run'.at = IF WithCommit THEN "mark" ELSE "changelog"
      /\ Changelog => run.at = "changelog"
                      /\ run'.at = IF mode.node THEN "package" ELSE IF WithCommit THEN "commit" ELSE "mark"
      /\ Package => run.at = "package" /\ run'.at = IF WithCommit THEN "commit" ELSE "mark"
      /\ Fetch => run.at = "fetch" /\ run'.at = IF origin.deploy >= run.point THEN "retag" ELSE "push"
  BY <1>3 DEF Tag, Changelog, Package, Fetch, Goto
<1>10. /\ Push => run.at = "push" /\ run'.at = "ci"
       /\ CiGreen => run.at = "ci" /\ run'.at = "merge"
       /\ MergePromotion => run.at = "merge" /\ run'.at = "retag"
       /\ Retag => run.at = "retag" /\ run'.at = IF Tagged(origin.tags, run.v) THEN "mark" ELSE "pushtag"
       /\ PushTag => run.at = "pushtag" /\ run'.at = "mark"
  BY <1>3 DEF Push, CiGreen, MergePromotion, Retag, PushTag, Goto
<1>11. QED
  BY <1>1, <1>2, <1>4, <1>5, <1>7, <1>8, <1>9, <1>10

\* A run starts with the tasks there are to release, or with those of the newest commit.
LEMMA StartReads ==
  ASSUME TypeOK, Starts
  PROVE  /\ run.at = "idle" /\ run' # Idle /\ run'.read = task /\ run'.point = Len(commits)
         /\ run'.left \subseteq Releasable
         /\ UNCHANGED <<mode, task, files, commits, tags, origin, heads, clock, torn, racing>>
         /\ Resume => /\ Orphan /\ run'.at = AfterCommit /\ run'.v = Last(commits).v
                      /\ run'.left = {t \in Releasable : task[t].doneAt <= Last(commits).date}
         /\ Begin => /\ ~Orphan /\ run'.at = IF WantTag /\ ~WithCommit THEN "tag" ELSE "changelog"
                     /\ run'.v \in {Current + 1, Current + 2} /\ ~Collides(run'.v)
                     /\ run'.left = Releasable
<1>1. run = Idle /\ run.at = "idle"
  BY DEF Starts, Resume, Begin, Idle
<1>2. UNCHANGED <<mode, task, files, commits, tags, origin, heads, clock, torn, racing>>
  BY DEF Starts, Resume, Begin, repo, history
<1>3. ASSUME Resume
      PROVE  /\ Orphan /\ run'.at = AfterCommit /\ run'.v = Last(commits).v
             /\ run'.left = {t \in Releasable : task[t].doneAt <= Last(commits).date}
             /\ run'.read = task /\ run'.point = Len(commits)
  BY <1>3 DEF Resume, Idle
<1>4. ASSUME Begin
      PROVE  /\ ~Orphan /\ run'.at = IF WantTag /\ ~WithCommit THEN "tag" ELSE "changelog"
             /\ run'.v \in {Current + 1, Current + 2} /\ ~Collides(run'.v)
             /\ run'.left = Releasable /\ run'.read = task /\ run'.point = Len(commits)
  BY <1>4 DEF Begin, Idle
<1>5. run'.at # "idle"
  BY <1>3, <1>4 DEF Starts, AfterCommit
<1>6. QED
  BY <1>1, <1>2, <1>3, <1>4, <1>5 DEF Starts, Idle

LEMMA MarkWrites ==
  ASSUME TypeOK, Mark
  PROVE  \E t \in run.left :
            /\ t \in Tasks /\ run \in Running /\ run.at = "mark" /\ run'.at = "mark"
            /\ run'.left = run.left \ {t}
            /\ run'.v = run.v /\ run'.read = run.read /\ run'.point = run.point
            /\ task' = [task EXCEPT ![t] = [run.read[t] EXCEPT !.released = run.v]]
            /\ [run.read[t] EXCEPT !.released = run.v].released = run.v /\ run.v # 0
            /\ UNCHANGED <<mode, files, commits, tags, origin, heads, clock, torn, racing>>
<1>1. run \in Running /\ run.at = "mark"
  BY RunningAt DEF Mark
<1>2. PICK t \in run.left : /\ task' = [task EXCEPT ![t] = [run.read[t] EXCEPT !.released = run.v]]
                           /\ run' = [run EXCEPT !.left = @ \ {t}]
  BY DEF Mark
<1>3. UNCHANGED <<mode, files, commits, tags, origin, heads, clock, torn, racing>>
  BY DEF Mark, repo, history
<1>4. /\ run'.left = run.left \ {t} /\ run'.at = run.at
      /\ run'.v = run.v /\ run'.read = run.read /\ run'.point = run.point
  BY <1>1, <1>2 DEF Running
<1>5. t \in Tasks /\ run.read[t] \in TaskState /\ run.v # 0
  BY <1>1, <1>2 DEF Running
<1>6. [run.read[t] EXCEPT !.released = run.v].released = run.v
  BY <1>5 DEF TaskState
<1>7. QED
  BY <1>1, <1>2, <1>3, <1>4, <1>5, <1>6

\* The tasks go on, and never back.
LEMMA BacklogWrites ==
  ASSUME TypeOK, Backlog
  PROVE  \E t \in Tasks :
            /\ \A u \in Tasks : u # t => task'[u] = task[u]
            /\ task'[t].released = task[t].released
            /\ \/ /\ ~task[t].done /\ task'[t].done /\ task'[t].doneAt = clock
                  /\ task'[t].rev = task[t].rev + 1
                  /\ racing' = racing \cup (IF run.at \in {"tag", "changelog", "package", "commit"}
                                            THEN {t} ELSE {})
               \/ ~task'[t].done /\ task'[t].rev = task[t].rev /\ UNCHANGED racing
            /\ UNCHANGED <<mode, files, commits, tags, origin, heads, run, clock, torn>>
<1>1. \A t \in Tasks : task \in [Tasks -> TaskState] /\ task[t] \in TaskState
  BY DEF TypeOK
<1>2. ASSUME NEW t \in Tasks, Done(t)
      PROVE  /\ \A u \in Tasks : u # t => task'[u] = task[u]
             /\ task'[t].released = task[t].released
             /\ ~task[t].done /\ task'[t].done /\ task'[t].doneAt = clock
             /\ task'[t].rev = task[t].rev + 1
             /\ racing' = racing \cup (IF run.at \in {"tag", "changelog", "package", "commit"}
                                       THEN {t} ELSE {})
             /\ UNCHANGED <<mode, files, commits, tags, origin, heads, run, clock, torn>>
  BY <1>1, <1>2 DEF Done, TaskState, repo
<1>3. ASSUME NEW t \in Tasks, Reopen(t)
      PROVE  /\ \A u \in Tasks : u # t => task'[u] = task[u]
             /\ task'[t].released = task[t].released
             /\ ~task'[t].done /\ task'[t].rev = task[t].rev /\ UNCHANGED racing
             /\ UNCHANGED <<mode, files, commits, tags, origin, heads, run, clock, torn>>
  BY <1>1, <1>3 DEF Reopen, TaskState, repo, history
<1>4. QED
  BY <1>2, <1>3 DEF Backlog

LEMMA NextSteps ==
  ASSUME Next
  PROVE  Starts \/ Walks \/ Mark \/ Finish \/ Fails \/ Tick \/ Backlog
BY DEF Next, Handler, Starts, Walks, Fails, Backlog

-----------------------------------------------------------------------------
(* The way of a handler.                                                   *)

\* Nothing but the handler's walk, a start and an end of it changes where it is.
LEMMA WayKept ==
  ASSUME TypeOK, RouteInv, UNCHANGED <<mode, tags, commits>>,
         \/ run' = Idle
         \/ run'.at = run.at /\ run'.v = run.v /\ run'.point = run.point
  PROVE  RouteInv'
<1>1. Promote' = Promote /\ WithCommit' = WithCommit /\ WantTag' = WantTag
  BY DEF Promote, WithCommit, WantTag
<1>2. Topped'
  BY DEF RouteInv, Topped
<1>3. CASE run' = Idle
  BY <1>2, <1>3 DEF RouteInv, Routed, AtCommit, Committed, OnRemote, Idle
<1>4. CASE run'.at = run.at /\ run'.v = run.v /\ run'.point = run.point
  BY <1>1, <1>2, <1>4 DEF RouteInv, Routed, AtCommit, Committed
<1>5. QED
  BY <1>3, <1>4

LEMMA WalkOnWay ==
  ASSUME TypeOK, RouteInv, Walks
  PROVE  RouteInv'
<1>1. /\ run \in Running /\ run'.v = run.v /\ UNCHANGED mode
      /\ Promote' = Promote /\ WithCommit' = WithCommit /\ WantTag' = WantTag
  BY WalkLeads DEF Promote, WithCommit, WantTag
<1>2. AfterCommit \in {"fetch", "tag", "mark"} /\ (AfterCommit = "fetch" => Promote)
      /\ (AfterCommit = "tag" => WantTag)
  BY DEF AfterCommit
<1>3. Routed'
  BY <1>1, <1>2, WalkLeads DEF RouteInv, Routed, OnRemote, Walks
<1>4. Topped'
  <2>1. CASE Tag \/ Retag
    <3>1. \/ {x.v : x \in tags'} = {x.v : x \in tags} \cup {run.v}
          \/ tags' = tags
      <4>1. ASSUME NEW p, tags' = tags \cup {[v |-> run.v, point |-> p]}
                          \/ tags' = {x \in tags : x.v # run.v} \cup {[v |-> run.v, point |-> p]}
            PROVE  {x.v : x \in tags'} = {x.v : x \in tags} \cup {run.v}
        <5>1. [v |-> run.v, point |-> p] \in tags' /\ [v |-> run.v, point |-> p].v = run.v
          BY <4>1
        <5>2. \A x \in tags : x.v = run.v \/ x \in tags'
          BY <4>1
        <5>3. \A x \in tags' : x.v = run.v \/ x \in tags
          BY <4>1
        <5> QED
          BY <5>1, <5>2, <5>3
      <4>2. QED
        BY <2>1, <4>1 DEF Tag, Retag
    <3>2. PICK m \in {x.v : x \in tags} \cup {0} : \A x \in tags : x.v <= m
      BY DEF RouteInv, Topped
    <3>3. m \in Nat /\ run.v \in Nat /\ \A x \in tags : x.v \in Nat
      BY <1>1 DEF TypeOK, Running
    <3>4. DEFINE k == IF run.v <= m THEN m ELSE run.v
    <3>5. k \in {x.v : x \in tags} \cup {0, run.v} /\ m <= k /\ run.v <= k /\ k \in Nat
      BY <3>2, <3>3
    <3> HIDE DEF k
    <3>6. CASE {x.v : x \in tags'} = {x.v : x \in tags} \cup {run.v}
      <4>1. \A x \in tags' : x.v \in {y.v : y \in tags} \cup {run.v}
        BY <3>6
      <4>2. \A x \in tags' : x.v <= k
        BY <3>2, <3>3, <3>5, <4>1
      <4>3. k \in {x.v : x \in tags'} \cup {0}
        BY <3>5, <3>6
      <4>4. QED
        BY <4>2, <4>3 DEF Topped
    <3>7. QED
      BY <3>1, <3>6 DEF RouteInv, Topped
  <2>2. CASE ~Tag /\ ~Retag
    <3>1. UNCHANGED tags
      BY <2>2 DEF Walks, Changelog, Package, Commit, Fetch, Push, CiPending, CiGreen, MergePromotion,
         PushTag, repo
    <3>2. QED
      BY <3>1 DEF RouteInv, Topped
  <2>3. QED
    BY <2>1, <2>2
<1>5. AtCommit'
  <2>1. CASE Commit
    <3> DEFINE c == [v |-> run.v, date |-> SecondOf(clock)]
    <3>1. commits' = Append(commits, c) /\ c.v = run.v
      BY <2>1 DEF Commit
    <3> HIDE DEF c
    <3>2. commits' # <<>> /\ commits'[Len(commits')] = c
      <4>1. commits \in Seq([v : Nat \ {0}, date : Nat])
        BY DEF TypeOK
      <4>2. Len(commits') = Len(commits) + 1 /\ Len(commits) \in Nat /\ commits'[Len(commits) + 1] = c
        BY <3>1, <4>1, AppendProperties
      <4>3. QED
        BY <4>2
    <3>3. Last(commits') = c
      BY <3>2 DEF Last
    <3>4. QED
      BY <1>1, <2>1, <3>1, <3>2, <3>3, WalkLeads DEF AtCommit
  <2>2. CASE ~Commit
    <3>1. UNCHANGED commits /\ run'.point = run.point /\ (Committed' => Committed)
      BY <1>1, <2>2, WalkLeads DEF Walks, RouteInv, Routed, Committed, OnRemote, Promote, WithCommit, WantTag
    <3>2. QED
      BY <1>1, <3>1 DEF RouteInv, AtCommit
  <2>3. QED
    BY <2>1, <2>2
<1>6. QED
  BY <1>3, <1>4, <1>5 DEF RouteInv

LEMMA RouteNext == TypeOK /\ RouteInv /\ [Next]_vars => TypeOK' /\ RouteInv'
<1>1. ASSUME TypeOK, RouteInv, [Next]_vars PROVE TypeOK'
  <2>1. CASE Next
    BY <1>1, <2>1, HandlerTyped, OthersTyped DEF Next, RouteInv, Fails
  <2>2. CASE UNCHANGED vars
    BY <1>1, <2>2 DEF vars, repo, history, TypeOK
  <2>3. QED
    BY <1>1, <2>1, <2>2
<1> SUFFICES ASSUME TypeOK, RouteInv, [Next]_vars PROVE RouteInv'
  BY <1>1
<1>2. CASE Starts
  <2>1. /\ UNCHANGED <<mode, tags, commits>> /\ run'.point = Len(commits)
        /\ Promote' = Promote /\ WithCommit' = WithCommit /\ WantTag' = WantTag
    BY <1>2, StartReads DEF Promote, WithCommit, WantTag
  <2>2. Topped'
    BY <2>1 DEF RouteInv, Topped
  <2>3. CASE Resume
    BY <2>1, <2>2, <2>3, <1>2, StartReads DEF RouteInv, Routed, AtCommit, Orphan, AfterCommit, OnRemote
  <2>4. CASE Begin
    BY <2>1, <2>2, <2>4, <1>2, StartReads DEF RouteInv, Routed, AtCommit, Committed, OnRemote
  <2>5. QED
    BY <1>2, <2>3, <2>4 DEF Starts
<1>3. CASE Walks
  BY <1>3, WalkOnWay
<1>4. CASE Mark
  BY <1>4, MarkWrites, WayKept
<1>5. CASE Finish
  BY <1>5, WayKept DEF Finish, repo
<1>6. CASE Fails
  BY <1>6, FailsLosing, WayKept
<1>7. CASE Tick \/ UNCHANGED vars
  BY <1>7, WayKept DEF Tick, vars, repo
<1>8. CASE Backlog
  BY <1>8, BacklogWrites, WayKept
<1>9. QED
  BY <1>2, <1>3, <1>4, <1>5, <1>6, <1>7, <1>8, NextSteps

LEMMA RouteInit == Init => TypeOK /\ RouteInv
<1>1. Init => RouteInv
  BY DEF Init, RouteInv, Routed, Topped, AtCommit, Committed, OnRemote, Idle
<1>2. QED
  BY <1>1, InitTyped

\* The spine, the repository and the handler keep their types in every reachable state: in
\* particular the highest tag stays one, and the deploy branch is never ahead of the branch.
THEOREM ReleaseTypeCorrect == Spec => []TypeOK
BY RouteInit, RouteNext, PTL DEF Spec

-----------------------------------------------------------------------------
(* Tags and marks.                                                         *)

\* The release commits of a branch stay.
LEMMA CommitsStay ==
  ASSUME TypeOK, [Next]_vars
  PROVE  /\ Len(commits) \in Nat /\ Len(commits') \in Nat /\ Len(commits) <= Len(commits')
         /\ \A i \in 1..Len(commits) : commits'[i] = commits[i]
         /\ ~Commit => UNCHANGED commits
<1>0. commits \in Seq([v : Nat \ {0}, date : Nat]) /\ Len(commits) \in Nat
  BY DEF TypeOK
<1>1. CASE Commit
  <2> DEFINE c == [v |-> run.v, date |-> SecondOf(clock)]
  <2>1. commits' = Append(commits, c)
    BY <1>1 DEF Commit
  <2> HIDE DEF c
  <2>2. Len(commits') = Len(commits) + 1 /\ \A i \in 1..Len(commits) : commits'[i] = commits[i]
    BY <1>0, <2>1
  <2>3. QED
    BY <1>0, <1>1, <2>2
<1>2. CASE ~Commit
  <2>1. UNCHANGED commits
    <3>1. CASE Starts \/ Walks
      BY <1>2, <3>1, StartReads, WalkLeads
    <3>2. CASE Mark \/ Finish
      BY <3>2, MarkWrites DEF Finish, repo
    <3>3. CASE Fails \/ Backlog
      BY <3>3, FailsLosing, BacklogWrites
    <3>4. CASE Tick \/ UNCHANGED vars
      BY <3>4 DEF Tick, vars, repo
    <3>5. QED
      BY <3>1, <3>2, <3>3, <3>4, NextSteps
  <2>2. QED
    BY <1>0, <1>2, <2>1
<1>3. QED
  BY <1>1, <1>2

\* A tag stays on its commit, and a backed version backed, as tags and commits are added.
LEMMA TagStays ==
  ASSUME NEW a, NEW b, a \subseteq b, NEW cs, NEW ds, Len(cs) \in Nat, Len(ds) \in Nat,
         Len(cs) <= Len(ds), \A i \in 1..Len(cs) : ds[i] = cs[i],
         NEW v, TagAt(a, cs, v)
  PROVE  TagAt(b, ds, v)
<1>1. PICK x \in a : x.v = v /\ x.point \in 1..Len(cs) /\ cs[x.point].v = v
  BY DEF TagAt
<1>2. x.point \in 1..Len(ds) /\ ds[x.point].v = v
  BY <1>1
<1>3. QED
  BY <1>1, <1>2 DEF TagAt

LEMMA BackedStays ==
  ASSUME NEW m, NEW ra, NEW rb, ra \subseteq rb,
         NEW la, NEW lb, m.flow # "promote" => la \subseteq lb,
         NEW cs, NEW ds, Len(cs) \in Nat, Len(ds) \in Nat, Len(cs) <= Len(ds),
         \A i \in 1..Len(cs) : ds[i] = cs[i],
         NEW v, Backed(m, ra, la, cs, v)
  PROVE  Backed(m, rb, lb, ds, v)
<1>1. m.flow = "promote" => TagAt(rb, ds, v)
  BY TagStays DEF Backed
<1>2. m.flow = "commit" /\ m.tag => TagAt(lb, ds, v)
  <2> SUFFICES ASSUME m.flow = "commit", m.tag PROVE TagAt(lb, ds, v)
    OBVIOUS
  <2>1. la \subseteq lb /\ TagAt(la, cs, v)
    BY DEF Backed
  <2>2. QED
    BY <2>1, TagStays
<1>3. m.flow = "plain" /\ m.tag => Tagged(lb, v)
  BY DEF Backed, Tagged
<1>4. QED
  BY <1>1, <1>2, <1>3 DEF Backed

\* The tags of the remote are never taken away, and those of the clone only by a promotion.
LEMMA TagsStay ==
  ASSUME TypeOK, RouteInv, [Next]_vars
  PROVE  /\ mode' = mode /\ origin.tags \subseteq origin'.tags
         /\ ~Retag => tags \subseteq tags'
         /\ mode.flow # "promote" => tags \subseteq tags'
<1>1. CASE Starts
  BY <1>1, StartReads
<1>2. CASE Walks
  <2>1. mode' = mode /\ (Retag => Promote)
    BY <1>2, WalkLeads DEF RouteInv, Routed, OnRemote
  <2>2. origin.tags \subseteq origin'.tags
    <3>1. CASE Push \/ MergePromotion \/ PushTag
      BY <3>1 DEF Push, MergePromotion, Merged, PushTag, TypeOK
    <3>2. CASE ~(Push \/ MergePromotion \/ PushTag)
      BY <1>2, <3>2 DEF Walks, Tag, Changelog, Package, Commit, Fetch, CiPending, CiGreen, Retag, repo
    <3>3. QED
      BY <3>1, <3>2
  <2>3. ~Retag => tags \subseteq tags'
    BY <1>2 DEF Walks, Tag, Changelog, Package, Commit, Fetch, Push, CiPending, CiGreen, MergePromotion,
       PushTag, repo
  <2>4. QED
    BY <2>1, <2>2, <2>3 DEF Promote
<1>3. CASE Mark \/ Finish
  BY <1>3, MarkWrites DEF Finish, repo
<1>4. CASE Fails
  BY <1>4, FailsLosing DEF Merged, TypeOK
<1>5. CASE Backlog
  BY <1>5, BacklogWrites
<1>6. CASE Tick \/ UNCHANGED vars
  BY <1>6 DEF Tick, vars, repo
<1>7. QED
  BY <1>1, <1>2, <1>3, <1>4, <1>5, <1>6, NextSteps

\* A handler past its commit is at the end of the branch, which has its version.
LEMMA AtTheEnd ==
  ASSUME TypeOK, RouteInv, run.at \in OnRemote \/ (WithCommit /\ run.at \in {"tag", "mark"})
  PROVE  /\ Len(commits) \in Nat \ {0} /\ run.point = Len(commits)
         /\ commits[Len(commits)].v = run.v /\ run.v \in Nat
<1>1. Committed
  BY DEF RouteInv, Routed, Committed, Promote, WithCommit
<1>2. commits # <<>> /\ run.point = Len(commits) /\ Last(commits).v = run.v
  BY <1>1 DEF RouteInv, AtCommit
<1>3. QED
  BY <1>1, <1>2, Newest, RunningAt DEF Committed, OnRemote, Running

LEMMA WalkTags ==
  ASSUME TypeOK, RouteInv, TagInv, Walks
  PROVE  TagInv'
<1>0. /\ run \in Running /\ run'.v = run.v /\ mode' = mode /\ run.point \in Nat /\ run.v \in Nat
      /\ Len(commits) \in Nat /\ Len(commits') \in Nat /\ Len(commits) <= Len(commits')
      /\ \A i \in 1..Len(commits) : commits'[i] = commits[i]
      /\ ~Commit => UNCHANGED commits
      /\ origin.deploy \in Nat /\ origin.branch \in Nat /\ origin.deploy <= origin.branch
      /\ origin.branch <= Len(commits)
      /\ \A x \in tags \cup origin.tags : x.point \in Nat
  <2>1. run \in Running /\ run'.v = run.v /\ mode' = mode /\ run.point \in Nat /\ run.v \in Nat
    BY WalkLeads DEF Running
  <2>2. [Next]_vars
    BY DEF Walks, Next, Handler
  <2>3. QED
    BY <2>1, <2>2, CommitsStay DEF TypeOK
<1>1. run.point <= Len(commits) /\ run'.point <= Len(commits')
  <2>1. run.point <= Len(commits)
    BY RunningAt, WalkLeads DEF TagInv, Running, Places
  <2>2. QED
    BY <1>0, <2>1, WalkLeads
<1>2. CASE Tag
  <2>1. tags' = tags \cup {[v |-> run.v, point |-> run.point]} /\ UNCHANGED <<commits, origin>>
    BY <1>2 DEF Tag
  <2>2. run'.at \in {"mark", "changelog"}
    BY <1>2, WalkLeads
  <2>3. QED
    BY <1>0, <1>1, <2>1, <2>2 DEF TagInv
<1>3. CASE Changelog \/ Package \/ Commit
  <2>1. UNCHANGED <<tags, origin>> /\ run'.at \in {"package", "commit", "mark", "fetch", "tag"}
    BY <1>3, WalkLeads DEF Changelog, Package, Commit, AfterCommit
  <2>2. QED
    BY <1>0, <1>1, <2>1 DEF TagInv
<1>4. CASE Fetch
  <2>1. UNCHANGED <<tags, origin, commits>> /\ run.at = "fetch"
        /\ run'.at = IF origin.deploy >= run.point THEN "retag" ELSE "push"
    BY <1>4, WalkLeads DEF Fetch, repo
  <2>2. run.point = Len(commits)
    BY <2>1, AtTheEnd DEF OnRemote
  <2>3. QED
    BY <1>0, <1>1, <2>1, <2>2 DEF TagInv
<1>5. CASE Push
  <2>1. UNCHANGED <<tags, commits>> /\ run'.at = "ci"
        /\ origin' = [origin EXCEPT !.branch = Len(commits)]
    BY <1>5, WalkLeads DEF Push
  <2>2. origin'.tags = origin.tags /\ origin'.branch = Len(commits)
    BY <2>1 DEF TypeOK
  <2>3. QED
    BY <1>0, <1>1, <2>1, <2>2 DEF TagInv
<1>6. CASE CiPending \/ CiGreen
  <2>1. UNCHANGED <<tags, origin, commits>> /\ run.at = "ci" /\ run'.at \in {"ci", "merge"}
    BY <1>6, WalkLeads DEF CiPending, CiGreen, repo
  <2>2. QED
    BY <1>0, <1>1, <2>1 DEF TagInv
<1>7. CASE MergePromotion
  <2>1. UNCHANGED <<tags, commits>> /\ run.at = "merge" /\ run'.at = "retag"
        /\ origin' = [origin EXCEPT !.deploy = origin.branch]
    BY <1>7, WalkLeads DEF MergePromotion, Merged
  <2>2. origin'.tags = origin.tags /\ origin'.deploy = Len(commits)
    BY <2>1 DEF TypeOK, TagInv
  <2>3. QED
    BY <1>0, <1>1, <2>1, <2>2 DEF TagInv
<1>8. CASE Retag
  <2>1. UNCHANGED <<origin, commits>> /\ run.at = "retag"
        /\ run'.at = (IF Tagged(origin.tags, run.v) THEN "mark" ELSE "pushtag")
    BY <1>8, WalkLeads DEF Retag
  <2>1a. (Tagged(origin.tags, run.v) => tags' = tags)
         /\ (~Tagged(origin.tags, run.v) =>
               tags' = {x \in tags : x.v # run.v} \cup {[v |-> run.v, point |-> origin.deploy]})
    BY <1>8 DEF Retag
  <2>2. origin.deploy = Len(commits)
    BY <2>1 DEF TagInv
  <2>3. CASE Tagged(origin.tags, run.v)
    BY <1>0, <1>1, <2>1, <2>1a, <2>3 DEF TagInv
  <2>4. CASE ~Tagged(origin.tags, run.v)
    <3>1. [v |-> run.v, point |-> origin.deploy] \in tags'
      BY <2>1, <2>1a, <2>4
    <3>2. Tagged(tags, run.v)'
      BY <1>0, <3>1 DEF Tagged
    <3>3. \A x \in tags' : x.v = run.v => x.point = Len(commits)
      BY <2>1, <2>1a, <2>2, <2>4
    <3>4. \A x \in tags' : x.point <= Len(commits)
      BY <1>0, <2>1, <2>1a, <2>2, <2>4 DEF TagInv
    <3>5. QED
      BY <1>0, <1>1, <2>1, <2>1a, <2>2, <2>4, <3>2, <3>3, <3>4 DEF TagInv
  <2>5. QED
    BY <2>3, <2>4
<1>9. CASE PushTag
  <2>1. UNCHANGED <<tags, commits>> /\ run.at = "pushtag" /\ run'.at = "mark"
        /\ origin' = [origin EXCEPT !.tags = @ \cup {x \in tags : x.v = run.v}]
    BY <1>9, WalkLeads DEF PushTag
  <2>2. origin'.tags = origin.tags \cup {x \in tags : x.v = run.v}
    BY <2>1 DEF TypeOK
  <2>3. Len(commits) \in Nat \ {0} /\ commits[Len(commits)].v = run.v
    BY <2>1, AtTheEnd DEF OnRemote
  <2>4. \A x \in origin'.tags : x.point \in 1..Len(commits) /\ commits[x.point].v = x.v
    BY <2>1, <2>2, <2>3 DEF TagInv
  <2>5. QED
    BY <1>0, <1>1, <2>1, <2>4 DEF TagInv
<1>10. QED
  BY <1>2, <1>3, <1>4, <1>5, <1>6, <1>7, <1>8, <1>9 DEF Walks

LEMMA TagNext == TypeOK /\ RouteInv /\ TagInv /\ [Next]_vars => TagInv'
<1> SUFFICES ASSUME TypeOK, RouteInv, TagInv, [Next]_vars PROVE TagInv'
  OBVIOUS
<1>1. ASSUME UNCHANGED <<tags, commits>>, origin'.tags = origin.tags,
             run' = Idle \/ (run'.point <= Len(commits) /\ run'.at \in {"fetch", "tag", "mark", "changelog"})
      PROVE  TagInv'
  BY <1>1 DEF TagInv, Idle
<1>2. CASE Starts
  BY <1>1, <1>2, StartReads, CommitsStay DEF Starts, AfterCommit
<1>3. CASE Walks
  BY <1>3, WalkTags
<1>4. CASE Mark
  BY <1>1, <1>4, MarkWrites DEF TagInv
<1>5. CASE Finish
  BY <1>1, <1>5 DEF Finish, repo
<1>6. CASE Fails
  BY <1>1, <1>6, FailsLosing DEF Merged, TypeOK
<1>7. CASE Backlog \/ Tick \/ UNCHANGED vars
  <2>1. UNCHANGED <<tags, commits, origin, run>>
    BY <1>7, BacklogWrites DEF Tick, vars, repo
  <2>2. QED
    BY <2>1 DEF TagInv, Tagged
<1>8. QED
  BY <1>2, <1>3, <1>4, <1>5, <1>6, <1>7, NextSteps

\* What a walk arrives with where the tasks are marked.
LEMMA WalkBacks ==
  ASSUME TypeOK, RouteInv, TagInv, MarkInv, Walks
  PROVE  /\ run'.at = "mark" => Backed(mode, origin'.tags, tags', commits', run.v)
         /\ mode.flow = "plain" /\ mode.tag /\ run'.at \in {"changelog", "package"} => Tagged(tags', run.v)
<1>0. mode.flow \in {"plain", "commit", "promote"} /\ mode.tag \in BOOLEAN
  BY ReleaseAssumption DEF TypeOK, Mode
<1>1. CASE Tag
  <2>1. tags' = tags \cup {[v |-> run.v, point |-> run.point]} /\ UNCHANGED <<commits, origin>>
        /\ run.at = "tag" /\ run'.at = IF WithCommit THEN "mark" ELSE "changelog"
    BY <1>1, WalkLeads DEF Tag
  <2>2. [v |-> run.v, point |-> run.point] \in tags' /\ WantTag
    BY <2>1 DEF RouteInv, Routed
  <2>3. Tagged(tags', run.v)
    BY <2>2 DEF Tagged
  <2>4. ASSUME mode.flow = "commit" PROVE TagAt(tags', commits', run.v)
    <3>0. WithCommit /\ run.at \in {"tag", "mark"}
      BY <2>1, <2>4 DEF WithCommit
    <3>1. Len(commits) \in Nat \ {0} /\ run.point = Len(commits) /\ commits[Len(commits)].v = run.v
      BY <3>0, AtTheEnd
    <3> DEFINE x == [v |-> run.v, point |-> run.point]
    <3>2. x \in tags' /\ x.v = run.v /\ x.point = Len(commits) /\ commits' = commits
      BY <2>1, <2>2, <3>1
    <3> HIDE DEF x
    <3>3. x.point \in 1..Len(commits') /\ commits'[x.point].v = run.v
      BY <3>1, <3>2
    <3>4. QED
      BY <3>2, <3>3 DEF TagAt
  <2>5. mode.flow # "promote"
    BY <2>2 DEF WantTag, Promote
  <2>6. QED
    BY <2>3, <2>4, <2>5 DEF Backed
<1>2. CASE Changelog \/ Package
  <2>1. UNCHANGED tags /\ run.at \in {"changelog", "package"}
        /\ (run'.at = "mark" => mode.flow = "plain")
    BY <1>0, <1>2, WalkLeads DEF Changelog, Package, WithCommit
  <2>2. mode.flow = "plain" /\ mode.tag => Tagged(tags', run.v)
    BY <2>1 DEF MarkInv
  <2>3. QED
    BY <2>1, <2>2 DEF Backed
<1>3. CASE Commit
  <2>1. run.at = "commit" /\ run'.at = AfterCommit
    BY <1>3, WalkLeads
  <2>2. mode.flow # "plain"
    BY <2>1 DEF RouteInv, Routed, WithCommit
  <2>3. run'.at = "mark" => mode.flow # "promote" /\ ~mode.tag
    BY <1>0, <2>1 DEF AfterCommit, WantTag, Promote
  <2>4. QED
    BY <2>2, <2>3 DEF Backed
<1>4. CASE Fetch \/ Push \/ CiPending \/ CiGreen \/ MergePromotion
  <2>1. run.at \in OnRemote /\ run'.at \notin {"mark", "changelog", "package"}
    BY <1>4, WalkLeads DEF OnRemote
  <2>2. QED
    BY <2>1
<1>5. CASE Retag
  <2>1. UNCHANGED <<origin, commits>> /\ run.at = "retag"
        /\ run'.at = IF Tagged(origin.tags, run.v) THEN "mark" ELSE "pushtag"
    BY <1>5, WalkLeads DEF Retag
  <2>2. mode.flow = "promote"
    BY <2>1 DEF RouteInv, Routed, OnRemote, Promote
  <2>3. Tagged(origin.tags, run.v) => TagAt(origin.tags, commits, run.v)
    BY DEF TagInv, Tagged, TagAt
  <2>4. QED
    BY <2>1, <2>2, <2>3 DEF Backed
<1>6. CASE PushTag
  <2>1. UNCHANGED commits /\ run.at = "pushtag" /\ run'.at = "mark"
        /\ origin'.tags = origin.tags \cup {x \in tags : x.v = run.v}
    BY <1>6, WalkLeads DEF PushTag, TypeOK
  <2>2. mode.flow = "promote"
    BY <2>1 DEF RouteInv, Routed, OnRemote, Promote
  <2>3. Len(commits) \in Nat \ {0} /\ commits[Len(commits)].v = run.v
    BY <2>1, AtTheEnd DEF OnRemote
  <2>4. PICK x \in tags : x.v = run.v
    BY <2>1 DEF TagInv, Tagged
  <2>5. x \in origin'.tags /\ x.point = Len(commits)
    BY <2>1, <2>4 DEF TagInv
  <2>6. TagAt(origin'.tags, commits', run.v)
    BY <2>1, <2>3, <2>4, <2>5 DEF TagAt
  <2>7. QED
    BY <2>1, <2>2, <2>6 DEF Backed
<1>7. QED
  BY <1>1, <1>2, <1>3, <1>4, <1>5, <1>6 DEF Walks

LEMMA MarkNext == TypeOK /\ RouteInv /\ TagInv /\ MarkInv /\ [Next]_vars => MarkInv'
<1> SUFFICES ASSUME TypeOK, RouteInv, TagInv, MarkInv, [Next]_vars PROVE MarkInv'
  OBVIOUS
<1>1. /\ mode' = mode
      /\ \A v : Backed(mode, origin.tags, tags, commits, v)
                  => Backed(mode, origin'.tags, tags', commits', v)
      /\ mode.flow = "plain" => \A v : Tagged(tags, v) => Tagged(tags', v)
  BY CommitsStay, TagsStay, BackedStays DEF Tagged
<1>2. ASSUME \A t \in Tasks : \/ task'[t].released = task[t].released
                              \/ task'[t].released = run.v /\ run.at = "mark",
             \/ run' = Idle
             \/ run'.at = run.at /\ run'.v = run.v
      PROVE  MarkInv'
  BY <1>1, <1>2 DEF MarkInv, Idle
<1>3. CASE Starts
  <2>1. task' = task /\ tags' = tags /\ run'.at \in {"fetch", "tag", "mark", "changelog"}
        /\ (run'.at = "mark" => Resume /\ mode.flow # "promote" /\ (mode.flow = "commit" => ~mode.tag)
                                /\ mode.flow # "plain")
        /\ (run'.at = "changelog" => ~(mode.flow = "plain" /\ mode.tag))
    <3>1. task' = task /\ tags' = tags
      BY <1>3, StartReads
    <3>2. CASE Resume
      BY <1>3, <3>1, <3>2, StartReads DEF AfterCommit, Orphan, WithCommit, WantTag, Promote
    <3>3. CASE Begin
      BY <1>3, <3>1, <3>3, StartReads DEF WithCommit, WantTag, Promote
    <3>4. QED
      BY <1>3, <3>2, <3>3 DEF Starts
  <2>2. \A t \in Tasks : task'[t].released # 0 =>
           Backed(mode, origin'.tags, tags', commits', task'[t].released)
    BY <1>1, <2>1 DEF MarkInv
  <2>3. run'.at = "mark" => Backed(mode, origin'.tags, tags', commits', run'.v)
    BY <2>1, ReleaseAssumption DEF Backed, TypeOK, Mode
  <2>4. QED
    BY <1>1, <2>1, <2>2, <2>3 DEF MarkInv
<1>4. CASE Walks
  <2>1. task' = task /\ run'.v = run.v
    BY <1>4, WalkLeads
  <2>2. \A t \in Tasks : task'[t].released # 0 =>
           Backed(mode, origin'.tags, tags', commits', task'[t].released)
    BY <1>1, <2>1 DEF MarkInv
  <2>3. QED
    BY <1>1, <1>4, <2>1, <2>2, WalkBacks DEF MarkInv
<1>5. CASE Mark
  <2>1. PICK t \in Tasks :
           /\ run.at = "mark" /\ run'.at = "mark" /\ run'.v = run.v
           /\ task' = [task EXCEPT ![t] = [run.read[t] EXCEPT !.released = run.v]]
           /\ [run.read[t] EXCEPT !.released = run.v].released = run.v
    BY <1>5, MarkWrites
  <2>2. QED
    BY <1>2, <2>1 DEF TypeOK
<1>6. CASE Finish
  BY <1>2, <1>6 DEF Finish
<1>7. CASE Fails
  BY <1>2, <1>7, FailsLosing
<1>8. CASE Backlog
  BY <1>2, <1>8, BacklogWrites
<1>9. CASE Tick \/ UNCHANGED vars
  BY <1>2, <1>9 DEF Tick, vars
<1>10. QED
  BY <1>3, <1>4, <1>5, <1>6, <1>7, <1>8, <1>9, NextSteps

\* However often a release is killed and run again: with --promote a task is marked only with a
\* version whose tag is on the remote, at the release commit of that version; with --commit
\* the tag of the clone is there; and a plain release has tagged before it marks.
THEOREM MarksAreTagged == Spec => []MarkedIsTagged
<1> DEFINE I == TypeOK /\ RouteInv /\ TagInv /\ MarkInv
<1>1. Init => TagInv /\ MarkInv
  BY DEF Init, TagInv, MarkInv, Idle, Record0
<1>2. Init => I
  BY <1>1, RouteInit
<1>3. I /\ [Next]_vars => I'
  BY RouteNext, TagNext, MarkNext
<1>4. I => MarkedIsTagged
  <2> SUFFICES ASSUME I, NEW t \in Tasks, task[t].released # 0
               PROVE  LET v == task[t].released
                          At(set) == \E x \in set : x.v = v /\ x.point # 0 /\ commits[x.point].v = v
                      IN  /\ Promote => At(origin.tags)
                          /\ mode.flow = "commit" /\ WantTag => At(tags)
                          /\ mode.flow = "plain" /\ WantTag => Tagged(tags, v)
    BY DEF MarkedIsTagged
  <2>1. Backed(mode, origin.tags, tags, commits, task[t].released)
    BY DEF MarkInv
  <2>2. \A n : n \in 1..Len(commits) => n # 0
    BY DEF TypeOK
  <2>3. QED
    BY <2>1, <2>2 DEF Backed, TagAt, Promote, WantTag
<1>5. QED
  BY <1>2, <1>3, <1>4, PTL DEF Spec

-----------------------------------------------------------------------------
(* The CHANGELOG.                                                          *)

LEMMA Prepended ==
  ASSUME NEW S, NEW s \in Seq(S), NEW e \in S
  PROVE  /\ Len(s) \in Nat /\ Len(<<e>> \o s) = Len(s) + 1
         /\ (<<e>> \o s)[1] = e
         /\ \A i \in 1..Len(s) : (<<e>> \o s)[i + 1] = s[i]
         /\ \A i \in 2..(Len(s) + 1) : (<<e>> \o s)[i] = s[i - 1]
<1> DEFINE one == <<e>>
<1>1. one \in Seq(S) /\ Len(one) = 1 /\ one[1] = e
  OBVIOUS
<1> HIDE DEF one
<1>2. Len(s) \in Nat /\ Len(one \o s) = Len(s) + 1
      /\ \A i \in 1..(Len(s) + 1) : (one \o s)[i] = IF i <= 1 THEN one[i] ELSE s[i - 1]
  BY <1>1, ConcatProperties
<1>3. (one \o s)[1] = e
  BY <1>1, <1>2
<1>4. \A i \in 1..Len(s) : (one \o s)[i + 1] = s[i]
  <2> SUFFICES ASSUME NEW i \in 1..Len(s) PROVE (one \o s)[i + 1] = s[i]
    OBVIOUS
  <2>1. i + 1 \in 1..(Len(s) + 1) /\ ~(i + 1 <= 1) /\ (i + 1) - 1 = i
    BY <1>2
  <2>2. QED
    BY <1>2, <2>1
<1>5. \A i \in 2..(Len(s) + 1) : (one \o s)[i] = s[i - 1]
  BY <1>2
<1>6. QED
  BY <1>2, <1>3, <1>4, <1>5 DEF one

\* Only a handler at the CHANGELOG writes it, and puts its section before the others.
LEMMA LogGrows ==
  ASSUME TypeOK, [Next]_vars
  PROVE  \/ Changelog /\ files'.log = <<Section>> \o files.log
         \/ ~Changelog /\ files'.log = files.log
<1>1. CASE Changelog
  BY <1>1 DEF Changelog, TypeOK
<1>2. CASE ~Changelog
  <2>1. CASE Starts
    BY <1>2, <2>1, StartReads
  <2>2. CASE Package
    BY <1>2, <2>2 DEF Package, TypeOK
  <2>3. CASE Walks /\ ~Package
    BY <1>2, <2>3 DEF Walks, Tag, Commit, Fetch, Push, CiPending, CiGreen, MergePromotion, Retag,
       PushTag, repo
  <2>4. CASE Mark \/ Finish
    BY <1>2, <2>4, MarkWrites DEF Finish, repo
  <2>5. CASE Fails \/ Backlog
    BY <1>2, <2>5, FailsLosing, BacklogWrites
  <2>6. CASE Tick \/ UNCHANGED vars
    BY <1>2, <2>6 DEF Tick, vars, repo
  <2>7. QED
    BY <2>1, <2>2, <2>3, <2>4, <2>5, <2>6, NextSteps
<1>3. QED
  BY <1>1, <1>2

\* What the sections say then.
LEMMA LogSays ==
  ASSUME TypeOK, Changelog, files'.log = <<Section>> \o files.log
  PROVE  /\ run \in Running /\ Len(files.log) \in Nat /\ Len(files'.log) = Len(files.log) + 1
         /\ files'.log[1] = Section
         /\ \A i \in 1..Len(files.log) : files'.log[i + 1] = files.log[i]
         /\ \A i \in 2..Len(files'.log) : files'.log[i] = files.log[i - 1]
<1>1. run \in Running
  BY RunningAt DEF Changelog
<1>2. Section \in [v : Nat, items : SUBSET Delivered]
  BY <1>1, SectionTyped
<1>3. files.log \in Seq([v : Nat, items : SUBSET Delivered])
  BY DEF TypeOK
<1> DEFINE L == files'.log
<1>4. L = <<Section>> \o files.log
  OBVIOUS
<1> HIDE DEF L
<1>5. /\ Len(files.log) \in Nat /\ Len(L) = Len(files.log) + 1
      /\ L[1] = Section
      /\ \A i \in 1..Len(files.log) : L[i + 1] = files.log[i]
      /\ \A i \in 2..(Len(files.log) + 1) : L[i] = files.log[i - 1]
  BY <1>2, <1>3, <1>4, Prepended
<1>6. QED
  BY <1>1, <1>5 DEF L

LEMMA ToldStays ==
  ASSUME TypeOK, [Next]_vars, NEW t, NEW v, Told(files.log, t, v)
  PROVE  Told(files'.log, t, v)
<1>1. CASE files'.log = files.log
  BY <1>1
<1>2. CASE Changelog /\ files'.log = <<Section>> \o files.log
  <2>1. PICK i \in 1..Len(files.log) : files.log[i].v = v /\ \E x \in files.log[i].items : x.task = t
    BY DEF Told
  <2>2. i + 1 \in 1..Len(files'.log) /\ files'.log[i + 1] = files.log[i]
    BY <1>2, LogSays
  <2>3. QED
    BY <2>1, <2>2 DEF Told
<1>3. QED
  BY <1>1, <1>2, LogGrows

LEMMA SectionTells ==
  ASSUME TypeOK, Changelog, files'.log = <<Section>> \o files.log, NEW t \in run.left
  PROVE  Told(files'.log, t, run.v)
<1>1. 1 \in 1..Len(files'.log) /\ files'.log[1] = Section
  BY LogSays
<1>2. Section.v = run.v /\ [task |-> t, rev |-> run.read[t].rev] \in Section.items
  BY DEF Section
<1>3. [task |-> t, rev |-> run.read[t].rev].task = t
  OBVIOUS
<1>4. QED
  BY <1>1, <1>2, <1>3 DEF Told

LEMMA WalkTells ==
  ASSUME TypeOK, RouteInv, NotedInv, Walks
  PROVE  NotedInv'
<1>0. /\ run \in Running /\ run'.v = run.v /\ run'.left = run.left /\ UNCHANGED <<mode, task, racing>>
      /\ WithCommit' = WithCommit /\ Promote' = Promote /\ WantTag' = WantTag
      /\ Releasable' = Releasable
  BY WalkLeads DEF WithCommit, Promote, WantTag, Releasable
<1>1. [Next]_vars
  BY DEF Walks, Next, Handler
<1>2. \A t, v : Told(files.log, t, v) => Told(files'.log, t, v)
  BY <1>1, ToldStays
<1>3. \A t \in Tasks \ racing' :
         task'[t].released # 0 => Told(files'.log, t, task'[t].released)
  BY <1>0, <1>2 DEF NotedInv
<1>4. CASE Changelog
  <2>1. /\ run.at = "changelog" /\ UNCHANGED <<commits, clock>>
        /\ run'.at \in {"package", "commit", "mark"}
    BY <1>4, WalkLeads
  <2>2. \A t \in run.left : Told(files'.log, t, run.v)
    BY <1>1, <1>4, LogGrows, SectionTells
  <2>3. QED
    BY <1>0, <1>2, <1>3, <2>1, <2>2 DEF NotedInv
<1>5. CASE Commit
  <2> DEFINE c == [v |-> run.v, date |-> SecondOf(clock)]
  <2>1. /\ commits' = Append(commits, c) /\ clock' = clock + 1 /\ clock \in Nat
        /\ run.at = "commit" /\ run'.at = AfterCommit
    BY <1>5, WalkLeads DEF Commit, TypeOK
  <2>2. c.v = run.v /\ c.date \in Nat /\ c.date <= clock
    BY <2>1, SecondIsBefore
  <2> HIDE DEF c
  <2>3. commits' # <<>> /\ Last(commits') = c
    <3>1. commits \in Seq([v : Nat \ {0}, date : Nat])
      BY DEF TypeOK
    <3>2. Len(commits') = Len(commits) + 1 /\ Len(commits) \in Nat /\ commits'[Len(commits) + 1] = c
      BY <2>1, <3>1, AppendProperties
    <3>3. QED
      BY <3>2 DEF Last
  <2>4. run.left \subseteq Tasks /\ Releasable \ racing \subseteq run.left
    BY <1>0, <2>1 DEF NotedInv, Running
  <2>5. \A t \in run.left \ racing : Told(files'.log, t, run.v)
    BY <1>2, <2>1 DEF NotedInv, Written
  <2>6. run'.at \in {"fetch", "tag", "mark"} /\ WithCommit
    BY <2>1 DEF AfterCommit, RouteInv, Routed
  <2>7. QED
    BY <1>0, <1>3, <2>1, <2>2, <2>3, <2>4, <2>5, <2>6 DEF NotedInv
<1>6. CASE Tag \/ Package
  <2>1. /\ UNCHANGED <<commits, clock>>
        /\ \/ run.at = "tag" /\ WithCommit /\ run'.at = "mark"
           \/ run.at = "tag" /\ ~WithCommit /\ run'.at = "changelog"
           \/ run.at = "package" /\ run'.at \in {"commit", "mark"}
    BY <1>6, WalkLeads DEF Tag, Package, Commit
  <2>2. Written' => Written
    BY <1>0, <2>1 DEF Written, OnRemote
  <2>3. QED
    BY <1>0, <1>2, <1>3, <2>1, <2>2 DEF NotedInv
<1>7. CASE Fetch \/ Push \/ CiPending \/ CiGreen \/ MergePromotion \/ Retag \/ PushTag
  <2>1. UNCHANGED <<commits, clock>> /\ run.at \in OnRemote /\ run'.at \in OnRemote \cup {"mark"}
    BY <1>7, WalkLeads DEF Fetch, Push, CiPending, CiGreen, MergePromotion, Retag, PushTag, Commit, repo,
       OnRemote
  <2>2. Written
    BY <2>1 DEF Written
  <2>3. run'.at \notin {"tag", "changelog", "package", "commit"}
    BY <2>1 DEF OnRemote
  <2>4. QED
    BY <1>0, <1>2, <1>3, <2>1, <2>2, <2>3 DEF NotedInv
<1>8. QED
  BY <1>4, <1>5, <1>6, <1>7 DEF Walks

LEMMA NotedNext == TypeOK /\ RouteInv /\ NotedInv /\ [Next]_vars => NotedInv'
<1> SUFFICES ASSUME TypeOK, RouteInv, NotedInv, [Next]_vars PROVE NotedInv'
  OBVIOUS
<1>1. \A t, v : Told(files.log, t, v) => Told(files'.log, t, v)
  BY ToldStays
<1>2. clock \in Nat /\ \A t \in Tasks : task[t].doneAt \in Nat
  BY DEF TypeOK, TaskState
<1>3. commits # <<>> => Last(commits).date \in Nat
  BY Newest
<1>4. CASE Starts
  <2>1. /\ UNCHANGED <<mode, task, files, commits, clock, racing>> /\ run'.left \subseteq Releasable
        /\ Releasable' = Releasable /\ WithCommit' = WithCommit
    BY <1>4, StartReads DEF Releasable, WithCommit
  <2>2. CASE Resume
    <3>1. /\ WithCommit /\ commits # <<>> /\ run'.v = Last(commits).v
          /\ run'.left = {t \in Releasable : task[t].doneAt <= Last(commits).date}
          /\ run'.at \in {"fetch", "tag", "mark"}
      BY <1>4, <2>2, StartReads DEF Orphan, AfterCommit
    <3>2. QED
      BY <2>1, <3>1 DEF NotedInv
  <2>3. CASE Begin
    <3>1. run'.left = Releasable
          /\ (run'.at = "changelog" \/ (run'.at = "tag" /\ ~WithCommit))
      BY <1>4, <2>3, StartReads
    <3>2. ~Written'
      BY <2>1, <3>1 DEF Written, OnRemote
    <3>3. QED
      BY <2>1, <3>1, <3>2 DEF NotedInv
  <2>4. QED
    BY <1>4, <2>2, <2>3 DEF Starts
<1>5. CASE Walks
  BY <1>5, WalkTells
<1>6. CASE Mark
  <2>1. PICK t \in run.left :
            /\ t \in Tasks /\ run \in Running /\ run.at = "mark" /\ run'.at = "mark"
            /\ run'.left = run.left \ {t} /\ run'.v = run.v
            /\ task' = [task EXCEPT ![t] = [run.read[t] EXCEPT !.released = run.v]]
            /\ [run.read[t] EXCEPT !.released = run.v].released = run.v /\ run.v # 0
            /\ UNCHANGED <<mode, files, commits, clock, racing>>
    BY <1>6, MarkWrites
  <2>2. task'[t].released = run.v /\ \A u \in Tasks : u # t => task'[u] = task[u]
    BY <2>1 DEF TypeOK
  <2>3. Releasable' \subseteq Releasable \ {t}
    BY <2>1, <2>2 DEF Releasable
  <2>4. t \notin racing => Told(files.log, t, run.v)
    BY <2>1 DEF NotedInv, Written
  <2>5. \A u \in Tasks \ racing : task'[u].released # 0 => Told(files.log, u, task'[u].released)
    BY <2>2, <2>4 DEF NotedInv
  <2>6. \A u \in Releasable' : u \in Releasable /\ task'[u] = task[u]
    BY <2>2, <2>3 DEF Releasable
  <2>7. \A u \in run'.left \ racing : Told(files.log, u, run.v)
    BY <2>1 DEF NotedInv, Written
  <2>8. QED
    BY <2>1, <2>5, <2>6, <2>7 DEF NotedInv
<1>7. CASE Finish \/ Fails
  <2>1. UNCHANGED <<mode, task, files, commits, clock, racing>> /\ run' = Idle
        /\ Releasable' = Releasable
    BY <1>7, FailsLosing DEF Finish, repo, history, Releasable
  <2>2. ~Written' /\ run'.at = "idle"
    BY <2>1 DEF Idle, Written, OnRemote
  <2>3. QED
    BY <2>1, <2>2 DEF NotedInv
<1>8. CASE Tick \/ UNCHANGED vars
  <2>1. /\ UNCHANGED <<mode, task, files, commits, run, racing>> /\ clock' \in Nat /\ clock <= clock'
        /\ Releasable' = Releasable /\ Written' = Written /\ WithCommit' = WithCommit
    BY <1>2, <1>8 DEF Tick, vars, repo, history, Releasable, Written, WithCommit
  <2>2. commits # <<>> => Last(commits).date < clock'
    BY <1>2, <1>3, <2>1 DEF NotedInv
  <2>3. QED
    BY <2>1, <2>2 DEF NotedInv
<1>9. CASE Backlog
  <2>1. PICK t \in Tasks :
            /\ \A u \in Tasks : u # t => task'[u] = task[u]
            /\ task'[t].released = task[t].released
            /\ \/ /\ task'[t].doneAt = clock
                  /\ racing' = racing \cup (IF run.at \in {"tag", "changelog", "package", "commit"}
                                            THEN {t} ELSE {})
               \/ ~task'[t].done /\ UNCHANGED racing
            /\ UNCHANGED <<mode, files, commits, run, clock>>
    BY <1>9, BacklogWrites
  <2>2. racing \subseteq racing' /\ Written' = Written /\ WithCommit' = WithCommit
    BY <2>1 DEF Written, WithCommit
  <2>3. Releasable' \subseteq Releasable \cup {t}
    BY <2>1 DEF Releasable
  <2>4. run.at \in {"changelog", "package", "commit", "tag"} => t \notin Releasable' \/ t \in racing'
    BY <2>1 DEF Releasable
  <2>5. \A u \in Tasks \ racing' :
           task'[u].released # 0 => Told(files.log, u, task'[u].released)
    BY <2>1, <2>2 DEF NotedInv
  <2>6. ASSUME commits # <<>>, NEW u \in Releasable' \ racing', task'[u].doneAt <= Last(commits).date
        PROVE  Told(files.log, u, Last(commits).v)
    <3>1. CASE u = t
      <4>1. task'[t].doneAt = clock
        BY <2>1, <2>6, <3>1 DEF Releasable
      <4>2. QED
        BY <1>2, <1>3, <2>6, <3>1, <4>1 DEF NotedInv
    <3>2. CASE u # t
      <4>1. u \in Releasable /\ task'[u] = task[u] /\ u \in Tasks
        BY <2>1, <2>3, <2>6, <3>2 DEF Releasable
      <4>2. QED
        BY <2>2, <2>6, <4>1 DEF NotedInv
    <3>3. QED
      BY <3>1, <3>2
  <2>7. run.at \in {"changelog", "package", "commit"} \/ (run.at = "tag" /\ ~WithCommit)
          => Releasable' \ racing' \subseteq run.left
    BY <2>2, <2>3, <2>4 DEF NotedInv
  <2>8. Written => \A u \in run.left \ racing' : Told(files.log, u, run.v)
    BY <2>2 DEF NotedInv
  <2>9. QED
    BY <2>1, <2>2, <2>5, <2>6, <2>7, <2>8 DEF NotedInv
<1>10. QED
  BY <1>4, <1>5, <1>6, <1>7, <1>8, <1>9, NextSteps

\* A task marked released in a version is told in the section of that version, unless it was done
\* while the run was on its way to its commit: a run that is resumed tells nothing, and marks only
\* who was done by the date of the commit it finds.
THEOREM MarksAreNoted == Spec => []MarkedIsNoted
<1>1. Init => NotedInv
  BY DEF Init, NotedInv, Written, OnRemote, Idle, Record0
<1>2. NotedInv /\ TypeOK => MarkedIsNoted
  <2>1. TypeOK => DOMAIN files.log = 1..Len(files.log)
    BY DEF TypeOK
  <2>2. QED
    BY <2>1 DEF NotedInv, MarkedIsNoted, Told
<1>3. QED
  BY <1>1, <1>2, RouteInit, RouteNext, NotedNext, PTL DEF Spec

-----------------------------------------------------------------------------
(* New versions.                                                           *)

LEMMA VersionBegins ==
  ASSUME TypeOK, RouteInv, NewInv, Versioned, Starts
  PROVE  NewInv'
<1>0. /\ UNCHANGED <<mode, files, commits, tags, origin, heads>> /\ run' # Idle
      /\ WithCommit' = WithCommit /\ Promote' = Promote /\ WantTag' = WantTag
  BY StartReads DEF WithCommit, Promote, WantTag
<1>1. CASE Resume
  <2>1. /\ WithCommit /\ commits # <<>> /\ run'.v = Last(commits).v /\ Last(commits).v \notin heads
        /\ Promote \/ ~Tagged(tags, Last(commits).v)
        /\ run'.at = AfterCommit
    BY <1>1, StartReads DEF Orphan
  <2>2. Last(commits) = commits[Len(commits)] /\ Len(commits) \in 1..Len(commits)
    BY <2>1, Newest
  <2>3. mode.node => Last(commits).v <= files.pkg
    BY <2>2 DEF NewInv
  <2>4. /\ run'.at \in {"fetch", "tag", "mark"} /\ (run'.at = "mark" => ~WantTag /\ ~Promote)
        /\ (run'.at = "tag" => ~Promote)
    BY <2>1 DEF AfterCommit, WantTag
  <2>5. Committed' /\ (WantTag => ~Promote)
    BY <1>0, <2>1, <2>4 DEF Committed, OnRemote, WantTag
  <2>6. QED
    BY <1>0, <2>1, <2>3, <2>4, <2>5 DEF NewInv
<1>2. CASE Begin
  <2>1. /\ run'.at = IF WantTag /\ ~WithCommit THEN "tag" ELSE "changelog"
        /\ run'.v \in {Current + 1, Current + 2} /\ ~Collides(run'.v)
    BY <1>2, StartReads
  <2>2. Current \in Nat /\ (mode.node => Current = files.pkg)
    BY CurrentIsTop DEF Current, RouteInv
  <2>3. WantTag \/ Promote => ~Tagged(tags, run'.v)
    BY <2>1 DEF Collides
  <2>4. mode.node => files.pkg < run'.v /\ run'.v \notin heads
    <3> SUFFICES ASSUME mode.node PROVE files.pkg < run'.v /\ run'.v \notin heads
      OBVIOUS
    <3>1. files.pkg < run'.v /\ run'.v \in Nat /\ files.pkg \in Nat /\ heads \subseteq Nat
      BY <2>1, <2>2 DEF TypeOK
    <3>2. QED
      BY <3>1 DEF NewInv
  <2>5. ~mode.node => run'.v \notin heads
    BY <2>3 DEF NewInv, Versioned, WantTag
  <2>6. ~Written' /\ run'.at \notin {"mark", "package", "commit"} /\ (run'.at = "tag" => ~WithCommit)
    BY <1>0, <2>1 DEF Written, OnRemote
  <2>7. QED
    BY <1>0, <2>3, <2>4, <2>5, <2>6 DEF NewInv
<1>3. QED
  BY <1>1, <1>2 DEF Starts

LEMMA VersionWalks ==
  ASSUME TypeOK, RouteInv, TagInv, MarkInv, NewInv, Walks
  PROVE  NewInv'
<1>0. /\ run \in Running /\ run'.v = run.v /\ run.v \in Nat /\ UNCHANGED <<mode, heads>>
      /\ WithCommit' = WithCommit /\ Promote' = Promote /\ WantTag' = WantTag
      /\ run.at # "idle"
  BY WalkLeads DEF WithCommit, Promote, WantTag, Running, Places
<1>1. /\ files.pkg \in Nat /\ heads \subseteq Nat /\ Len(commits) \in Nat
      /\ \A i \in 1..Len(commits) : commits[i].v \in Nat
  <2>1. commits \in Seq([v : Nat \ {0}, date : Nat])
    BY DEF TypeOK
  <2>2. \A i \in 1..Len(commits) : commits[i] \in [v : Nat \ {0}, date : Nat]
    BY <2>1, ElementOfSeq
  <2>3. QED
    BY <2>1, <2>2 DEF TypeOK
<1>2. mode.flow \in {"plain", "commit", "promote"} /\ mode.tag \in BOOLEAN /\ mode.node \in BOOLEAN
  BY ReleaseAssumption DEF TypeOK, Mode
<1>3. CASE Tag
  <2>1. /\ tags' = tags \cup {[v |-> run.v, point |-> run.point]} /\ UNCHANGED <<files, commits, origin>>
        /\ run.at = "tag" /\ run'.at = IF WithCommit THEN "mark" ELSE "changelog"
    BY <1>3, WalkLeads DEF Tag
  <2>2. Tagged(tags', run.v) /\ \A v : Tagged(tags, v) => Tagged(tags', v)
    <3>1. [v |-> run.v, point |-> run.point] \in tags' /\ tags \subseteq tags'
      BY <2>1
    <3>2. QED
      BY <3>1 DEF Tagged
  <2>3. WantTag
    BY <2>1 DEF RouteInv, Routed
  <2>4. CASE WithCommit
    <3>1. Written /\ Written' /\ run'.at = "mark"
      BY <1>0, <2>1, <2>4 DEF Written
    <3>2. QED
      BY <1>0, <2>1, <2>2, <2>3, <3>1 DEF NewInv
  <2>5. CASE ~WithCommit
    <3>1. ~Committed /\ ~Committed' /\ ~Written' /\ run'.at = "changelog"
      BY <1>0, <2>1, <2>5 DEF Committed, Written, OnRemote
    <3>2. QED
      BY <1>0, <2>1, <2>2, <2>3, <2>5, <3>1 DEF NewInv
  <2>6. QED
    BY <2>4, <2>5
<1>4. CASE Changelog
  <2>1. /\ UNCHANGED <<commits, tags, origin>> /\ run.at = "changelog"
        /\ run'.at = IF mode.node THEN "package" ELSE IF WithCommit THEN "commit" ELSE "mark"
    BY <1>4, WalkLeads DEF Changelog
  <2>2. files'.pkg = files.pkg
    BY <1>4 DEF Changelog, TypeOK
  <2>3. ~Committed /\ (mode.node => run'.at = "package")
    BY <2>1 DEF Committed, OnRemote
  <2>4. run'.at = "mark" /\ (WantTag \/ Promote) => Tagged(tags, run.v)
    BY <1>2, <2>1 DEF MarkInv, WithCommit, WantTag, Promote
  <2>5. run'.at # "idle" /\ run'.at # "tag"
    BY <2>1
  <2>6. QED
    BY <1>0, <2>1, <2>2, <2>3, <2>4, <2>5 DEF NewInv
<1>5. CASE Package
  <2>1. /\ UNCHANGED <<commits, tags, origin>> /\ run.at = "package"
        /\ run'.at = IF WithCommit THEN "commit" ELSE "mark"
    BY <1>5, WalkLeads DEF Package
  <2>2. files'.pkg = run.v /\ mode.node
    BY <1>5, <2>1 DEF Package, TypeOK, RouteInv, Routed
  <2>3. files.pkg < run.v
    BY <2>1, <2>2 DEF NewInv, Committed, OnRemote
  <2>4. /\ \A h \in heads : h <= run.v
        /\ \A i \in 1..Len(commits) : commits[i].v <= run.v
    BY <1>0, <1>1, <2>2, <2>3 DEF NewInv
  <2>5. run'.at = "mark" /\ (WantTag \/ Promote) => Tagged(tags, run.v)
    BY <1>2, <2>1 DEF MarkInv, WithCommit, WantTag, Promote
  <2>6. run'.at \in {"commit", "mark"} /\ (run'.at = "commit" => WithCommit)
    BY <2>1
  <2>7. run.v <= run.v
    BY <1>0
  <2>8. QED
    BY <1>0, <2>1, <2>2, <2>4, <2>5, <2>6, <2>7 DEF NewInv
<1>6. CASE Commit
  <2> DEFINE c == [v |-> run.v, date |-> SecondOf(clock)]
  <2>1. /\ commits' = Append(commits, c) /\ UNCHANGED <<files, tags, origin>>
        /\ run.at = "commit" /\ run'.at = AfterCommit
    BY <1>6, WalkLeads DEF Commit
  <2>2. c.v = run.v
    OBVIOUS
  <2> HIDE DEF c
  <2>3. \A i \in 1..Len(commits') : commits'[i].v = run.v \/ (i \in 1..Len(commits) /\ commits'[i] = commits[i])
    <3>1. commits \in Seq([v : Nat \ {0}, date : Nat])
      BY DEF TypeOK
    <3>2. Len(commits') = Len(commits) + 1 /\ commits'[Len(commits) + 1] = c
          /\ \A i \in 1..Len(commits) : commits'[i] = commits[i]
      BY <2>1, <3>1, AppendProperties
    <3>3. QED
      BY <1>1, <2>2, <3>2
  <2>4. mode.node => run.v <= files.pkg
    BY <2>1 DEF NewInv, Written
  <2>5. mode.node => \A i \in 1..Len(commits') : commits'[i].v <= files.pkg
    BY <2>3, <2>4 DEF NewInv
  <2>6. /\ run'.at \in {"fetch", "tag", "mark"} /\ (run'.at = "mark" => ~WantTag /\ ~Promote)
        /\ WithCommit
    BY <2>1 DEF AfterCommit, RouteInv, Routed
  <2>7. Committed'
    BY <1>0, <2>6 DEF Committed, OnRemote
  <2>8. QED
    BY <1>0, <2>1, <2>4, <2>5, <2>6, <2>7 DEF NewInv
<1>7. CASE Fetch \/ Push \/ CiPending \/ CiGreen \/ MergePromotion
  <2>1. /\ UNCHANGED <<files, commits, tags>> /\ run.at \in OnRemote
        /\ run'.at \in OnRemote
    BY <1>7, WalkLeads DEF Fetch, Push, CiPending, CiGreen, MergePromotion, repo, OnRemote
  <2>2. origin'.tags = origin.tags
    BY <1>7 DEF Fetch, Push, CiPending, CiGreen, MergePromotion, Merged, repo, TypeOK
  <2>3. Written /\ run.at # "package" /\ run'.at \notin {"idle", "tag", "changelog", "package", "commit", "mark"}
    BY <2>1 DEF Written, OnRemote
  <2>4. QED
    BY <1>0, <2>1, <2>2, <2>3 DEF NewInv
<1>8. CASE Retag
  <2>1. /\ UNCHANGED <<files, commits, origin>> /\ run.at = "retag"
        /\ run'.at = (IF Tagged(origin.tags, run.v) THEN "mark" ELSE "pushtag")
    BY <1>8, WalkLeads DEF Retag
  <2>2. /\ Tagged(origin.tags, run.v) => tags' = tags
        /\ ~Tagged(origin.tags, run.v) =>
              tags' = {x \in tags : x.v # run.v} \cup {[v |-> run.v, point |-> origin.deploy]}
    BY <1>8 DEF Retag
  <2>3. Tagged(tags', run.v) /\ \A v : Tagged(tags, v) => Tagged(tags', v)
    <3>1. CASE Tagged(origin.tags, run.v)
      BY <2>2, <3>1 DEF NewInv, Tagged
    <3>2. CASE ~Tagged(origin.tags, run.v)
      <4>1. [v |-> run.v, point |-> origin.deploy] \in tags'
            /\ \A x \in tags : x.v = run.v \/ x \in tags'
        BY <2>2, <3>2
      <4>2. Tagged(tags', run.v)
        BY <4>1 DEF Tagged
      <4>3. QED
        BY <4>1, <4>2 DEF Tagged
    <3>3. QED
      BY <3>1, <3>2
  <2>4. Promote /\ Written /\ Written' /\ run'.at \in {"mark", "pushtag"}
    BY <2>1 DEF RouteInv, Routed, Written, OnRemote
  <2>5. QED
    BY <1>0, <2>1, <2>3, <2>4 DEF NewInv
<1>9. CASE PushTag
  <2>1. /\ UNCHANGED <<files, commits, tags>> /\ run.at = "pushtag" /\ run'.at = "mark"
    BY <1>9, WalkLeads DEF PushTag
  <2>2. origin'.tags = origin.tags \cup {x \in tags : x.v = run.v}
    BY <1>9 DEF PushTag, TypeOK
  <2>3. Tagged(tags, run.v) /\ Promote /\ Written
    BY <2>1 DEF TagInv, RouteInv, Routed, Written, OnRemote
  <2>4. \A x \in origin'.tags : Tagged(tags, x.v)
    BY <2>2, <2>3 DEF NewInv
  <2>5. QED
    BY <1>0, <2>1, <2>3, <2>4 DEF NewInv
<1>10. QED
  BY <1>3, <1>4, <1>5, <1>6, <1>7, <1>8, <1>9 DEF Walks

LEMMA NewNext == TypeOK /\ RouteInv /\ TagInv /\ MarkInv /\ (Versioned => NewInv) /\ [Next]_vars
                    => (Versioned => NewInv)'
<1> SUFFICES ASSUME TypeOK, RouteInv, TagInv, MarkInv, Versioned => NewInv, [Next]_vars, Versioned'
             PROVE  NewInv'
  OBVIOUS
<1>0. mode' = mode
  BY TagsStay
<1>1. /\ NewInv /\ Versioned
      /\ WithCommit' = WithCommit /\ Promote' = Promote /\ WantTag' = WantTag
  BY <1>0 DEF Versioned, WithCommit, Promote, WantTag
<1>2. ASSUME UNCHANGED <<files, commits, tags, heads>>, origin'.tags = origin.tags,
             run' = Idle \/ (run'.at = run.at /\ run'.v = run.v)
      PROVE  NewInv'
  <2>1. CASE run' = Idle
    <3>1. run'.at = "idle" /\ ~Written'
      BY <2>1 DEF Idle, Written, OnRemote
    <3>2. QED
      BY <1>0, <1>1, <1>2, <3>1 DEF NewInv
  <2>2. CASE run'.at = run.at /\ run'.v = run.v
    <3>1. Written' = Written /\ Committed' = Committed
      BY <1>1, <2>2 DEF Written, Committed
    <3>2. QED
      BY <1>0, <1>1, <1>2, <2>2, <3>1 DEF NewInv
  <2>3. QED
    BY <1>2, <2>1, <2>2
<1>3. CASE Starts
  BY <1>1, <1>3, VersionBegins
<1>4. CASE Walks
  BY <1>1, <1>4, VersionWalks
<1>5. CASE Mark
  BY <1>2, <1>5, MarkWrites
<1>6. CASE Finish
  <2>1. /\ UNCHANGED <<files, commits, tags, origin>> /\ heads' = heads \cup {run.v}
        /\ run' = Idle /\ run.at = "mark"
    BY <1>6 DEF Finish, repo
  <2>2. run'.at = "idle" /\ ~Written' /\ Written
    BY <2>1 DEF Idle, Written, OnRemote
  <2>3. mode.node => \A h \in heads' : h <= files.pkg
    BY <1>1, <2>1, <2>2 DEF NewInv
  <2>4. ~mode.node => \A h \in heads' : Tagged(tags, h)
    BY <1>1, <2>1 DEF NewInv, Versioned, WantTag
  <2>5. QED
    BY <1>0, <1>1, <2>1, <2>2, <2>3, <2>4 DEF NewInv
<1>7. CASE Fails
  BY <1>2, <1>7, FailsLosing DEF Merged, TypeOK
<1>8. CASE Backlog
  BY <1>2, <1>8, BacklogWrites
<1>9. CASE Tick \/ UNCHANGED vars
  BY <1>2, <1>9 DEF Tick, vars, repo
<1>10. QED
  BY <1>3, <1>4, <1>5, <1>6, <1>7, <1>8, <1>9, NextSteps

-----------------------------------------------------------------------------
(* Sections of the same delivery.                                          *)

LEMMA HeldNext == TypeOK /\ RouteInv /\ HeldInv /\ [Next]_vars => HeldInv'
<1> SUFFICES ASSUME TypeOK, RouteInv, HeldInv, [Next]_vars PROVE HeldInv'
  OBVIOUS
<1>1. TypeOK'
  BY RouteNext
<1>2. \A t \in Tasks : task[t].rev \in Nat /\ task[t].released \in Nat
  BY ReleaseAssumption DEF TypeOK, TaskState
<1>3. \A t \in run.left : t \in Tasks /\ run.read[t].rev \in Nat
  BY ReleaseAssumption, RunningAt DEF HeldInv, Running, TaskState
<1>4. run'.at = "idle" => run'.left = {}
  BY <1>1 DEF TypeOK, Idle, Running, Places
<1>5. ASSUME task' = task, run' = Idle \/ (run'.left = run.left /\ run'.read = run.read)
      PROVE  HeldInv'
  BY <1>4, <1>5 DEF HeldInv, Idle
<1>6. CASE Starts
  <2>1. /\ task' = task /\ run'.read = task /\ run'.left \subseteq Releasable
    BY <1>6, StartReads
  <2>2. \A t \in Releasable : t \in Tasks /\ task[t].released = 0
    BY DEF Releasable
  <2>3. QED
    BY <1>2, <1>4, <2>1, <2>2 DEF HeldInv
<1>7. CASE Walks
  BY <1>5, <1>7, WalkLeads
<1>8. CASE Mark
  <2>1. PICK t \in run.left :
            /\ run'.left = run.left \ {t} /\ run'.read = run.read
            /\ task' = [task EXCEPT ![t] = [run.read[t] EXCEPT !.released = run.v]]
    BY <1>8, MarkWrites
  <2>2. \A u \in run'.left : u \in run.left /\ task'[u] = task[u]
    BY <1>3, <2>1 DEF TypeOK
  <2>3. QED
    BY <1>4, <2>1, <2>2 DEF HeldInv
<1>9. CASE Finish \/ Fails
  BY <1>5, <1>9, FailsLosing DEF Finish
<1>10. CASE Backlog
  <2>1. PICK t \in Tasks :
            /\ \A u \in Tasks : u # t => task'[u] = task[u]
            /\ task'[t].released = task[t].released
            /\ \/ task'[t].rev = task[t].rev + 1
               \/ ~task'[t].done /\ task'[t].rev = task[t].rev
            /\ run' = run
    BY <1>10, BacklogWrites
  <2>2. ASSUME NEW u \in run.left
        PROVE  /\ task'[u].released = 0 /\ run.read[u].rev <= task'[u].rev
               /\ run.read[u].rev = task'[u].rev /\ task'[u].done
                    => run.read[u].doneAt = task'[u].doneAt
    <3>1. u \in Tasks /\ run.read[u].rev \in Nat /\ task[u].rev \in Nat
          /\ task[u].released = 0 /\ run.read[u].rev <= task[u].rev
      BY <1>2, <1>3 DEF HeldInv
    <3>2. CASE u # t
      BY <2>1, <3>1, <3>2 DEF HeldInv
    <3>3. CASE u = t
      BY <2>1, <3>1, <3>3
    <3>4. QED
      BY <3>2, <3>3
  <2>3. QED
    BY <1>4, <2>1, <2>2 DEF HeldInv
<1>11. CASE Tick \/ UNCHANGED vars
  BY <1>5, <1>11 DEF Tick, vars
<1>12. QED
  BY <1>6, <1>7, <1>8, <1>9, <1>10, <1>11, NextSteps

\* The new section has what the handler is to mark, as it read it.
LEMMA SectionHas ==
  ASSUME TypeOK, Changelog, NEW t, NEW rev
  PROVE  /\ Has(files'.log, 1, t, rev) <=> t \in run.left /\ rev = run.read[t].rev
         /\ \A i \in 2..Len(files'.log) : /\ i - 1 \in 1..Len(files.log)
                                          /\ Has(files'.log, i, t, rev) <=> Has(files.log, i - 1, t, rev)
         /\ Noted(files'.log, t, rev) => \/ Noted(files.log, t, rev)
                                         \/ t \in run.left /\ rev = run.read[t].rev
<1>0. [Next]_vars
  BY DEF Next, Handler
<1>1. /\ run \in Running /\ Len(files.log) \in Nat /\ Len(files'.log) = Len(files.log) + 1
      /\ files'.log[1] = Section
      /\ \A i \in 2..Len(files'.log) : files'.log[i] = files.log[i - 1]
  BY <1>0, LogGrows, LogSays
<1>2. Section.items = {[task |-> u, rev |-> run.read[u].rev] : u \in run.left}
  BY DEF Section
<1>3. [task |-> t, rev |-> rev] \in Section.items <=> t \in run.left /\ rev = run.read[t].rev
  <2>1. ASSUME [task |-> t, rev |-> rev] \in Section.items
        PROVE  t \in run.left /\ rev = run.read[t].rev
    <3>1. PICK u \in run.left : [task |-> t, rev |-> rev] = [task |-> u, rev |-> run.read[u].rev]
      BY <1>2, <2>1
    <3>2. t = u /\ rev = run.read[u].rev
      BY <3>1
    <3>3. QED
      BY <3>2
  <2>2. QED
    BY <1>2, <2>1
<1>4. Has(files'.log, 1, t, rev) <=> t \in run.left /\ rev = run.read[t].rev
  BY <1>1, <1>3 DEF Has
<1>5. \A i \in 2..Len(files'.log) : i - 1 \in 1..Len(files.log)
  BY <1>1
<1>6. \A i \in 2..Len(files'.log) : Has(files'.log, i, t, rev) <=> Has(files.log, i - 1, t, rev)
  BY <1>1 DEF Has
<1>7. ASSUME Noted(files'.log, t, rev)
      PROVE  Noted(files.log, t, rev) \/ (t \in run.left /\ rev = run.read[t].rev)
  <2>1. PICK i \in 1..Len(files'.log) : Has(files'.log, i, t, rev)
    BY <1>7 DEF Noted
  <2>2. i = 1 \/ i \in 2..Len(files'.log)
    BY <1>1, <2>1
  <2>3. QED
    BY <1>4, <1>5, <1>6, <2>1, <2>2 DEF Noted
<1>8. QED
  BY <1>4, <1>5, <1>6, <1>7

LEMMA WalkWrites ==
  ASSUME TypeOK, RouteInv, Walks
  PROVE  /\ run.at # "idle" /\ run'.at # "idle"
         /\ Changelog => ~Written /\ Written'
         /\ ~Changelog => Written' = Written
<1>0. WithCommit' = WithCommit /\ Promote' = Promote
  BY WalkLeads DEF WithCommit, Promote
<1>1. CASE Tag
  <2>1. run.at = "tag" /\ run'.at = IF WithCommit THEN "mark" ELSE "changelog"
    BY <1>1, WalkLeads
  <2>2. QED
    BY <1>0, <1>1, <2>1 DEF Written, OnRemote, Changelog
<1>2. CASE Changelog
  <2>1. run.at = "changelog" /\ run'.at \in {"package", "commit", "mark"}
    BY <1>2, WalkLeads
  <2>2. QED
    BY <1>2, <2>1 DEF Written, OnRemote
<1>3. CASE Package \/ Commit
  <2>1. run.at \in {"package", "commit"} /\ run'.at \in {"commit", "mark", "tag", "fetch"}
        /\ (run'.at = "tag" => WithCommit)
    BY <1>3, WalkLeads DEF AfterCommit, RouteInv, Routed
  <2>2. QED
    BY <1>0, <2>1 DEF Written, OnRemote, Changelog
<1>4. CASE Fetch \/ Push \/ CiPending \/ CiGreen \/ MergePromotion \/ Retag \/ PushTag
  <2>1. run.at \in OnRemote /\ run'.at \in OnRemote \cup {"mark"}
    BY <1>4, WalkLeads DEF OnRemote
  <2>2. QED
    BY <2>1 DEF Written, OnRemote, Changelog
<1>5. QED
  BY <1>1, <1>2, <1>3, <1>4 DEF Walks

\* Of a run that dies with its section written, who is not lost is resumed: its commit is the
\* newest and an orphan, and has the tasks it had read.
LEMMA DeadIsResumed ==
  ASSUME TypeOK, RouteInv, HeldInv, NewInv, run \in Running, Written,
         NEW t \in run.left, t \notin Lost, task[t].done, run.read[t].rev = task[t].rev
  PROVE  Orphan /\ task[t].doneAt <= Last(commits).date
<1>1. /\ WithCommit /\ run.at # "changelog" /\ run.at \notin {"package", "commit"}
      /\ ~(run.at = "mark" /\ WantTag)
      /\ run.at \in OnRemote \cup {"tag", "mark"}
  BY DEF Lost, Written, RouteInv, Routed, OnRemote, Promote, WithCommit
<1>2. ~(run.read[t].doneAt > Last(commits).date)
  BY <1>1 DEF Lost
<1>3. commits # <<>> /\ Last(commits).v = run.v
  BY <1>1 DEF RouteInv, AtCommit, Committed
<1>4. Last(commits).date \in Nat /\ run.read[t].doneAt \in Nat
  BY <1>3, Newest DEF Running, TaskState
<1>5. task[t].doneAt = run.read[t].doneAt
  BY DEF HeldInv
<1>6. run.v \notin heads
  BY <1>1 DEF NewInv, OnRemote
<1>7. Promote \/ ~Tagged(tags, run.v)
  <2>1. CASE run.at \in OnRemote
    BY <2>1 DEF RouteInv, Routed
  <2>2. CASE run.at = "tag"
    BY <1>1, <2>2 DEF RouteInv, Routed, NewInv
  <2>3. CASE run.at = "mark"
    BY <1>1, <2>3 DEF NewInv, Tagged
  <2>4. QED
    BY <1>1, <2>1, <2>2, <2>3
<1>8. QED
  BY <1>1, <1>2, <1>3, <1>4, <1>5, <1>6, <1>7 DEF Orphan

LEMMA SettledNext ==
  ASSUME TypeOK, RouteInv, HeldInv, NewInv, SettledInv, [Next]_vars
  PROVE  SettledInv'
<1> SUFFICES ASSUME NEW t \in Tasks \ torn', NEW rev \in 0..MaxRev,
                    Noted(files'.log, t, rev), task'[t].released = 0
             PROVE  Settled(t, rev)'
  BY DEF SettledInv
<1>0. task[t].rev \in Nat /\ rev \in Nat /\ t \in Tasks
  BY ReleaseAssumption DEF TypeOK, TaskState
<1>1. torn \subseteq torn'
  <2>1. CASE Starts \/ Walks \/ Mark \/ Finish
    BY <2>1, StartReads, WalkLeads, MarkWrites DEF Finish, history
  <2>2. CASE Fails \/ Backlog \/ Tick \/ UNCHANGED vars
    BY <2>2, FailsLosing, BacklogWrites DEF Tick, vars, history
  <2>3. QED
    BY <2>1, <2>2, NextSteps
<1>2. Noted(files.log, t, rev) /\ task[t].released = 0 => Settled(t, rev)
  BY <1>0, <1>1 DEF SettledInv
<1>3. ~Changelog => Noted(files.log, t, rev)
  BY LogGrows
<1>4. ASSUME rev < task[t].rev \/ (rev = task[t].rev /\ ~task[t].done), task'[t] = task[t]
      PROVE  Settled(t, rev)'
  BY <1>4 DEF Settled
<1>5. CASE Starts
  <2>1. /\ run.at = "idle" /\ task' = task /\ run'.read = task
        /\ UNCHANGED <<mode, commits>> /\ WithCommit' = WithCommit
    BY <1>5, StartReads DEF WithCommit
  <2>2. ~Changelog /\ ~Written
    BY <2>1 DEF Changelog, Written, OnRemote
  <2>3. Settled(t, rev)
    BY <1>2, <1>3, <2>1, <2>2
  <2>4. CASE rev < task[t].rev \/ (rev = task[t].rev /\ ~task[t].done)
    BY <1>4, <2>1, <2>4
  <2>5. CASE rev = task[t].rev /\ task[t].done /\ Orphan /\ task[t].doneAt <= Last(commits).date
    <3>1. Resume
      BY <1>5, <2>5, StartReads DEF Starts
    <3>2. t \in Releasable
      BY <1>0, <2>1, <2>5 DEF Releasable
    <3>3. t \in run'.left /\ run'.at = AfterCommit /\ WithCommit
      BY <1>5, <2>5, <3>1, <3>2, StartReads DEF Orphan
    <3>4. Written'
      BY <2>1, <3>3 DEF Written, AfterCommit, OnRemote
    <3>5. QED
      BY <2>1, <2>5, <3>3, <3>4 DEF Settled
  <2>6. QED
    BY <1>0, <2>2, <2>3, <2>4, <2>5 DEF Settled
<1>6. CASE Changelog
  <2>0. Walks
    BY <1>6 DEF Walks
  <2>1. /\ task' = task /\ run'.left = run.left /\ run'.read = run.read
        /\ ~Written /\ Written' /\ run.at # "idle" /\ run \in Running
    BY <1>6, <2>0, WalkLeads, WalkWrites
  <2>2. CASE Noted(files.log, t, rev)
    BY <1>2, <1>4, <2>1, <2>2 DEF Settled
  <2>3. CASE t \in run.left /\ rev = run.read[t].rev
    <3>1. rev <= task[t].rev
      BY <2>3 DEF HeldInv
    <3>2. QED
      BY <1>0, <1>4, <2>1, <2>3, <3>1 DEF Settled
  <2>4. QED
    BY <1>6, <2>2, <2>3, SectionHas
<1>7. CASE Walks /\ ~Changelog
  <2>1. /\ task' = task /\ run'.left = run.left /\ run'.read = run.read
        /\ Written' = Written /\ run.at # "idle"
    BY <1>7, WalkLeads, WalkWrites
  <2>2. QED
    BY <1>2, <1>3, <1>7, <2>1 DEF Settled
<1>8. CASE Mark
  <2>1. PICK u \in run.left :
            /\ u \in Tasks /\ run.at = "mark" /\ run'.at = "mark"
            /\ run'.left = run.left \ {u} /\ run'.read = run.read
            /\ task' = [task EXCEPT ![u] = [run.read[u] EXCEPT !.released = run.v]]
            /\ [run.read[u] EXCEPT !.released = run.v].released = run.v /\ run.v # 0
    BY <1>8, MarkWrites
  <2>2. t # u /\ task'[t] = task[t]
    BY <1>0, <2>1 DEF TypeOK
  <2>3. ~Changelog /\ Written /\ Written' /\ run.at # "idle"
    BY <2>1 DEF Changelog, Written
  <2>4. QED
    BY <1>2, <1>3, <2>1, <2>2, <2>3 DEF Settled
<1>9. CASE Finish
  <2>1. run.at = "mark" /\ run.left = {} /\ task' = task
    BY <1>9 DEF Finish
  <2>2. ~Changelog
    BY <2>1 DEF Changelog
  <2>3. QED
    BY <1>2, <1>3, <1>4, <2>1, <2>2 DEF Settled
<1>10. CASE Fails
  <2>1. /\ run' = Idle /\ run \in Running /\ task' = task /\ t \notin Lost
        /\ UNCHANGED <<mode, commits, tags, heads>>
    BY <1>10, FailsLosing
  <2>2. run.at # "idle" /\ run'.at = "idle"
    BY <2>1 DEF Running, Places, Idle
  <2>3. ~Changelog
    BY <2>1 DEF Changelog, Goto, Running, Idle
  <2>4. Orphan' = Orphan
    BY <2>1 DEF Orphan, WithCommit, Promote
  <2>5. Settled(t, rev)
    BY <1>2, <1>3, <2>1, <2>3
  <2>6. CASE rev = task[t].rev /\ task[t].done /\ Written /\ t \in run.left /\ rev = run.read[t].rev
    <3>1. Orphan /\ task[t].doneAt <= Last(commits).date
      BY <2>1, <2>6, DeadIsResumed
    <3>2. QED
      BY <2>1, <2>2, <2>4, <2>6, <3>1 DEF Settled
  <2>7. QED
    BY <1>4, <2>1, <2>2, <2>5, <2>6 DEF Settled
<1>11. CASE Backlog
  <2>1. PICK u \in Tasks :
            /\ \A w \in Tasks : w # u => task'[w] = task[w]
            /\ task'[u].released = task[u].released
            /\ \/ task'[u].rev = task[u].rev + 1
               \/ ~task'[u].done /\ task'[u].rev = task[u].rev
            /\ UNCHANGED <<mode, files, commits, tags, heads, run>>
    BY <1>11, BacklogWrites
  <2>2. Settled(t, rev)
    BY <1>0, <1>2, <2>1
  <2>3. CASE t = u
    <3>1. rev <= task[t].rev
      BY <1>0, <2>2 DEF Settled
    <3>2. QED
      BY <1>0, <2>1, <2>2, <2>3, <3>1 DEF Settled
  <2>4. CASE t # u
    <3>1. task'[t] = task[t] /\ Written' = Written /\ Orphan' = Orphan
      BY <1>0, <2>1, <2>4 DEF Written, WithCommit, Orphan, Promote
    <3>2. QED
      BY <2>1, <2>2, <3>1 DEF Settled
  <2>5. QED
    BY <2>3, <2>4
<1>12. CASE Tick \/ UNCHANGED vars
  <2>1. UNCHANGED <<mode, task, files, commits, tags, heads, run>>
    BY <1>12 DEF Tick, vars, repo
  <2>2. Written' = Written /\ Orphan' = Orphan
    BY <2>1 DEF Written, WithCommit, Orphan, Promote
  <2>3. QED
    BY <1>2, <2>1, <2>2 DEF Settled
<1>13. QED
  BY <1>5, <1>6, <1>7, <1>8, <1>9, <1>10, <1>11, <1>12, NextSteps

LEMMA OnceNext ==
  ASSUME TypeOK, RouteInv, HeldInv, SettledInv, OnceInv, [Next]_vars
  PROVE  OnceInv'
<1> SUFFICES ASSUME NEW t \in Tasks \ torn'
             PROVE  /\ run'.at # "idle" /\ ~Written' /\ t \in run'.left
                          => ~Noted(files'.log, t, run'.read[t].rev)
                    /\ \A rev \in 0..MaxRev : \A i, j \in 1..Len(files'.log) :
                          Has(files'.log, i, t, rev) /\ Has(files'.log, j, t, rev) => i = j
  BY DEF OnceInv
<1>0. t \in Tasks \ torn /\ task[t] \in TaskState /\ Len(files.log) \in Nat
  <2>1. torn \subseteq torn'
    <3>1. CASE Starts \/ Walks \/ Mark \/ Finish
      BY <3>1, StartReads, WalkLeads, MarkWrites DEF Finish, history
    <3>2. CASE Fails \/ Backlog \/ Tick \/ UNCHANGED vars
      BY <3>2, FailsLosing, BacklogWrites DEF Tick, vars, history
    <3>3. QED
      BY <3>1, <3>2, NextSteps
  <2>2. QED
    BY <2>1 DEF TypeOK
<1>1. /\ run.at # "idle" /\ ~Written /\ t \in run.left => ~Noted(files.log, t, run.read[t].rev)
      /\ \A rev \in 0..MaxRev : \A i, j \in 1..Len(files.log) :
            Has(files.log, i, t, rev) /\ Has(files.log, j, t, rev) => i = j
  BY <1>0 DEF OnceInv
<1>2. CASE Changelog
  <2>0. Walks
    BY <1>2 DEF Walks
  <2>1. /\ run'.left = run.left /\ run'.read = run.read
        /\ ~Written /\ Written' /\ run.at # "idle" /\ run \in Running
    BY <1>2, <2>0, WalkLeads, WalkWrites
  <2>2. ASSUME NEW rev \in 0..MaxRev, NEW i \in 1..Len(files'.log), NEW j \in 1..Len(files'.log),
               Has(files'.log, i, t, rev), Has(files'.log, j, t, rev)
        PROVE  i = j
    <3>1. Len(files'.log) = Len(files.log) + 1
      <4>1. [Next]_vars /\ files'.log = <<Section>> \o files.log
        BY <1>2, LogGrows
      <4>2. QED
        BY <1>2, <4>1, LogSays
    <3>2. ASSUME NEW k \in 2..Len(files'.log), Has(files'.log, k, t, rev)
          PROVE  k - 1 \in 1..Len(files.log) /\ Has(files.log, k - 1, t, rev)
      BY <1>2, <3>2, SectionHas
    <3>3. Has(files'.log, 1, t, rev) => t \in run.left /\ ~Noted(files.log, t, rev)
      BY <1>1, <1>2, <2>1, SectionHas
    <3>4. ASSUME NEW k \in 2..Len(files'.log), Has(files'.log, k, t, rev), Has(files'.log, 1, t, rev)
          PROVE  FALSE
      BY <3>2, <3>3, <3>4 DEF Noted
    <3>5. (i = 1 \/ i \in 2..Len(files'.log)) /\ (j = 1 \/ j \in 2..Len(files'.log))
      BY <1>0, <3>1
    <3>6. CASE i = 1 \/ j = 1
      BY <2>2, <3>4, <3>5, <3>6
    <3>7. CASE i \in 2..Len(files'.log) /\ j \in 2..Len(files'.log)
      <4>1. i - 1 = j - 1
        BY <1>1, <2>2, <3>2, <3>7
      <4>2. QED
        BY <3>1, <1>0, <3>7, <4>1
    <3>8. QED
      BY <3>5, <3>6, <3>7
  <2>3. QED
    BY <2>1, <2>2
<1>3. CASE ~Changelog
  <2>1. files'.log = files.log
    BY <1>3, LogGrows
  <2>2. ASSUME run'.at # "idle", ~Written', t \in run'.left
        PROVE  ~Noted(files.log, t, run'.read[t].rev)
    <3>1. CASE Begin
      <4>1. /\ run.at = "idle" /\ ~Orphan /\ run'.read = task /\ t \in Releasable
        BY <2>2, <3>1, StartReads DEF Starts
      <4>2. ~Settled(t, task[t].rev)
        BY <1>0, <4>1 DEF Settled, Releasable, Written, OnRemote, TaskState
      <4>3. QED
        BY <1>0, <4>1, <4>2 DEF SettledInv, Releasable, TaskState
    <3>2. CASE Resume
      <4>1. run'.at = AfterCommit /\ WithCommit /\ mode' = mode
        BY <3>2, StartReads DEF Starts, Orphan
      <4>2. Written'
        BY <4>1 DEF Written, AfterCommit, OnRemote, WithCommit
      <4>3. QED
        BY <2>2, <4>2
    <3>3. CASE Walks
      BY <1>1, <1>3, <2>2, <3>3, WalkLeads, WalkWrites
    <3>4. CASE Mark
      <4>1. run'.at = "mark"
        BY <3>4, MarkWrites
      <4>2. QED
        BY <2>2, <4>1 DEF Written
    <3>5. CASE Finish \/ Fails
      <4>1. run'.at = "idle"
        BY <3>5, FailsLosing DEF Finish, Idle
      <4>2. QED
        BY <2>2, <4>1
    <3>6. CASE Backlog \/ Tick \/ UNCHANGED vars
      <4>1. run' = run /\ mode' = mode
        BY <3>6, BacklogWrites DEF Tick, vars
      <4>2. Written' = Written
        BY <4>1 DEF Written, WithCommit
      <4>3. QED
        BY <1>1, <2>2, <4>1, <4>2
    <3>7. QED
      BY <3>1, <3>2, <3>3, <3>4, <3>5, <3>6, NextSteps DEF Starts
  <2>3. QED
    BY <1>1, <2>1, <2>2
<1>4. QED
  BY <1>2, <1>3

\* A delivery told in one section at most, counted.
LEMMA AtMostOne ==
  ASSUME NEW S, \A i, j \in S : i = j
  PROVE  Cardinality(S) <= 1
<1>1. CASE S = {}
  BY <1>1, FS_EmptySet
<1>2. CASE S # {}
  <2>1. PICK i \in S : S = {i}
    <3>1. PICK i : i \in S
      BY <1>2
    <3>2. S = {i}
      BY <3>1
    <3>3. QED
      BY <3>1, <3>2
  <2>2. Cardinality({i}) = 1
    BY FS_Singleton
  <2>3. QED
    BY <2>1, <2>2
<1>3. QED
  BY <1>1, <1>2

\* However often a release is killed and run again, a delivery is told in one section of the
\* CHANGELOG, except of the tasks no resumption reaches: a run that starts afresh finds no
\* orphan, so whoever it tells was not told, or was in a run that is recorded as torn.
THEOREM DeliveriesAreNotedOnce == Spec => []NotedOnce
<1> DEFINE R == TypeOK /\ RouteInv /\ TagInv /\ MarkInv /\ (Versioned => NewInv) /\ HeldInv
           O == Versioned => SettledInv /\ OnceInv
<1>1. Init => R
  <2>1. Init => TagInv /\ MarkInv
    BY DEF Init, TagInv, MarkInv, Idle, Record0
  <2>2. Init => NewInv
    BY DEF Init, NewInv, Written, OnRemote, Idle
  <2>3. Init => HeldInv
    BY DEF Init, HeldInv, Idle
  <2>4. QED
    BY <2>1, <2>2, <2>3, RouteInit
<1>2. Init => O
  BY DEF Init, SettledInv, OnceInv, Noted, Idle
<1>3. R /\ [Next]_vars => R'
  BY RouteNext, TagNext, MarkNext, NewNext, HeldNext
<1>4. R /\ O /\ [Next]_vars => O'
  <2> SUFFICES ASSUME R, O, [Next]_vars, Versioned' PROVE SettledInv' /\ OnceInv'
    OBVIOUS
  <2>1. Versioned
    BY TagsStay DEF Versioned, Promote
  <2>2. QED
    BY <2>1, SettledNext, OnceNext
<1>5. R /\ O => NotedOnce
  <2> SUFFICES ASSUME R, O, Versioned, NEW t \in Tasks \ torn, NEW rev \in 1..MaxRev
               PROVE  Cardinality(Sections(t, rev)) <= 1
    BY DEF NotedOnce
  <2>1. DOMAIN files.log = 1..Len(files.log) /\ rev \in 0..MaxRev
    BY ReleaseAssumption DEF TypeOK
  <2>2. \A i, j \in Sections(t, rev) : i = j
    BY <2>1 DEF Sections, OnceInv, Has
  <2>3. QED
    BY <2>2, AtMostOne
<1>6. QED
  BY <1>1, <1>2, <1>3, <1>4, <1>5, PTL DEF Spec
=============================================================================
