---------------------------- MODULE TaskLifecycle ----------------------------
(***************************************************************************)
(* The task commands of bin/chalk.mjs over one spine: spec, align, start,  *)
(* block, unblock, work, done, review, amend-spec, raise and pending       *)
(* accept/redirect/answer.                                                 *)
(*                                                                         *)
(* Every handler reads the task, changes the record it has read and writes *)
(* the WHOLE record back with upsertTask (an atomic mutation of AtomicStore*)
(* here).  work, done and review run an agent or the toolchain in between, *)
(* for minutes: each is a `Begin` that takes the record and an end that    *)
(* writes the changed copy back, whatever has been written meanwhile.  So  *)
(* does block, which writes the parked record, may run an agent to tell of *)
(* the task, and writes the same copy again with the path of that handoff. *)
(* The other handlers touch the disk twice within milliseconds and are one *)
(* step.                                                                   *)
(***************************************************************************)
EXTENDS TaskRecord

CONSTANTS
    Tasks,           \* task ids
    Sessions,        \* terminals that run work, done, review, block and handoff
    NoTask,          \* a session runs none of them
    Commands,        \* the commands in use
    Overlaps,        \* <<c, f>>: command c may be issued on a task while a
                     \* session is in phase f of a handler on the same task
    Cadence,         \* review.requiredAt; every task is of one milestone
    DirectorRequired,
                     \* protocol.director.required
    Parallel         \* protocol.parallel.enabled

\* `posting` is a phase of the driver's only (Driver).
Phases == {"idle", "executor", "checks", "done", "review", "posting", "handoff"}
\* `reopen` is the redirect of a done task, and `edit-test` no command of chalk's:
\* the test file changes on disk.
LongCommands == {"work", "done", "review", "block", "handoff"}
AllCommands == LongCommands \cup
    {"spec", "align", "start", "unblock", "amend-spec", "raise", "accept",
     "redirect", "reopen", "answer", "edit-test"}

Cadences == {"none", "per-task", "milestone-boundary"}

ASSUME LifecycleAssumption ==
    /\ NoTask \notin Tasks
    /\ Commands \subseteq AllCommands
    /\ Overlaps \subseteq AllCommands \X (Phases \ {"idle"})
    /\ Cadence \in Cadences /\ {DirectorRequired, Parallel} \subseteq BOOLEAN

VARIABLES
    disk,      \* tasks.json
    file,      \* file[t]: what the test file of t reads in t's checkout
    phase,     \* phase[s]: where session s is in its long handler
    on,        \* on[s]: the task that handler is about
    snap,      \* snap[s]: the record that handler read
    issued,    \* history: how far each correction of a task has been taken
    judged,    \* history: the locks the last passing review of t began with
    overrides, \* history: tasks whose last completion overrode the review gate
    reblocked  \* history: tasks blocked while they were blocked

vars == <<disk, file, phase, on, snap, issued, judged, overrides, reblocked>>
history == <<issued, judged, overrides, reblocked>>
sessions == <<phase, on, snap>>

TypeOK ==
    /\ disk \in [Tasks -> Record]
    /\ file \in [Tasks -> Revisions]
    /\ phase \in [Sessions -> Phases]
    /\ on \in [Sessions -> Tasks \cup {NoTask}]
    /\ snap \in [Sessions -> Record]
    /\ issued \in [Tasks -> [Notes -> NoteStatus]]
    /\ judged \in [Tasks -> SUBSET Revisions]
    /\ overrides \subseteq Tasks
    /\ reblocked \subseteq Tasks

Init ==
    /\ disk = [t \in Tasks |-> Created]
    /\ file = [t \in Tasks |-> 0]
    /\ phase = [s \in Sessions |-> "idle"]
    /\ on = [s \in Sessions |-> NoTask]
    /\ snap = [s \in Sessions |-> Created]
    /\ issued = [t \in Tasks |-> Created.note]
    /\ judged = [t \in Tasks |-> {}]
    /\ overrides = {}
    /\ reblocked = {}

-----------------------------------------------------------------------------

\* A command of the instance, issued on t at a moment the instance allows.
May(c, t) ==
    /\ c \in Commands
    /\ \A s \in Sessions : on[s] = t => <<c, phase[s]>> \in Overlaps

Upsert(t, r) == disk' = [disk EXCEPT ![t] = r]

InProgress == {t \in Tasks : disk[t].state = "in-progress"}

\* verify: the locked tests of every task in progress are as they were locked; a
\* task without a lock has nothing to compare.  The toolchain may be red besides.
IntegrityGreen == \A t \in InProgress : disk[t].tests \subseteq {file[t]}

-----------------------------------------------------------------------------
(* The short handlers.                                                     *)

Spec(t) ==
    /\ May("spec", t)
    /\ \E criterion \in BOOLEAN, lock \in {{}, {file[t]}} :
          /\ criterion \/ lock # {}
          /\ Upsert(t, Specced(disk[t], criterion, lock))
    /\ UNCHANGED <<file, sessions, history>>

\* The director accepts the criteria there are; criteria added later are not told
\* apart from those.
Align(t) ==
    /\ May("align", t)
    /\ Specified(disk[t])
    /\ Upsert(t, Aligned(disk[t]))
    /\ UNCHANGED <<file, sessions, history>>

\* criteriaAcceptedRequired
CriteriaAcceptedRequired(r) == DirectorRequired /\ ~r.aligned

\* Mutant: GATE P1 is not asked.
StartUngated(t) ==
    /\ May("start", t)
    /\ disk[t].state # "done"
    /\ Parallel \/ disk[t].state = "in-progress" \/ InProgress = {}
    /\ Upsert(t, Started(disk[t]))
    /\ UNCHANGED <<file, sessions, history>>

\* GATE P1, and one task at a time unless in parallel.
Start(t) ==
    /\ May("start", t)
    /\ Specified(disk[t])
    /\ disk[t].state # "done"
    /\ Parallel \/ disk[t].state = "in-progress" \/ InProgress = {}
    /\ Upsert(t, Started(disk[t]))
    /\ UNCHANGED <<file, sessions, history>>

Unblock(t) ==
    /\ May("unblock", t)
    /\ disk[t].state = "blocked"
    /\ Upsert(t, Unblocked(disk[t]))
    /\ UNCHANGED <<file, sessions, history>>

\* The test file changes on disk, or back: a human about to amend it, or an agent
\* that should not have.
EditTest(t) ==
    /\ May("edit-test", t)
    /\ \E rev \in Revisions \ {file[t]} : file' = [file EXCEPT ![t] = rev]
    /\ UNCHANGED <<disk, sessions, history>>

AmendSpec(t) ==
    /\ May("amend-spec", t)
    /\ Upsert(t, Amended(disk[t], file[t]))
    /\ UNCHANGED <<file, sessions, history>>

Issue(t, n, status) == issued' = [issued EXCEPT ![t][n] = status]

Raise(t) ==
    /\ May("raise", t)
    /\ \E n \in Notes :
          /\ issued[t][n] = "none"
          /\ Upsert(t, Raised(disk[t], n))
          /\ Issue(t, n, "raised")
    /\ UNCHANGED <<file, sessions, judged, overrides, reblocked>>

Answer(t) ==
    /\ May("answer", t)
    /\ \E n \in OpenRaises(disk[t]) :
          /\ Upsert(t, Answered(disk[t], n))
          /\ Issue(t, n, "directed")
    /\ UNCHANGED <<file, sessions, judged, overrides, reblocked>>

Accept(t) ==
    /\ May("accept", t)
    /\ disk[t].call = "open"
    /\ Upsert(t, Accepted(disk[t]))
    /\ UNCHANGED <<file, sessions, history>>

Redirect(t) ==
    /\ May("redirect", t)
    /\ disk[t].state = "done" => May("reopen", t)
    /\ disk[t].call = "open"
    /\ \E n \in Notes :
          /\ issued[t][n] = "none"
          /\ Upsert(t, Redirected(disk[t], n))
          /\ Issue(t, n, "directed")
    /\ UNCHANGED <<file, sessions, judged, overrides, reblocked>>

-----------------------------------------------------------------------------
(* The long handlers.                                                      *)

Begin(s, t, r, f) ==
    /\ phase' = [phase EXCEPT ![s] = f]
    /\ on' = [on EXCEPT ![s] = t]
    /\ snap' = [snap EXCEPT ![s] = r]

End(s) ==
    /\ phase' = [phase EXCEPT ![s] = "idle"]
    /\ on' = [on EXCEPT ![s] = NoTask]
    /\ snap' = [snap EXCEPT ![s] = Created]

\* A gate refuses, or the command is killed: it exits without this last write.
Refuse(s) ==
    /\ phase[s] # "idle"
    /\ End(s)
    /\ UNCHANGED <<disk, file, history>>

\* chalk work returns at once when the stage says the task is verified.
WorkAlreadyVerified(s, t) ==
    /\ phase[s] = "idle" /\ May("work", t)
    /\ disk[t].verified
    /\ UNCHANGED vars

\* chalk work puts the task in progress and runs the executor on it.
WorkBegin(s, t) ==
    /\ phase[s] = "idle" /\ May("work", t)
    /\ ~disk[t].verified /\ ~CriteriaAcceptedRequired(disk[t])
    /\ disk[t].state \in {"todo", "specd"} => Specified(disk[t])
    /\ PickedUp(disk[t]).state = "in-progress"
    /\ Upsert(t, PickedUp(disk[t]))
    /\ Begin(s, t, PickedUp(disk[t]), "executor")
    /\ UNCHANGED <<file, history>>

\* Mutant: open raises are looked for in the record read before the executor ran.
WorkExecutedStale(s) ==
    /\ phase[s] = "executor"
    /\ OpenRaises(snap[s]) = {}
    /\ phase' = [phase EXCEPT ![s] = "checks"]
    /\ UNCHANGED <<disk, file, on, snap, history>>

\* The executor has exited; with no open raise on the task, verify comes next.
WorkExecuted(s) ==
    /\ phase[s] = "executor"
    /\ OpenRaises(disk[on[s]]) = {}
    /\ phase' = [phase EXCEPT ![s] = "checks"]
    /\ UNCHANGED <<disk, file, on, snap, history>>

\* Verify and the probes have passed: the record taken at the start is written.
WorkVerified(s) ==
    /\ phase[s] = "checks"
    /\ IntegrityGreen
    /\ Upsert(on[s], Verified(snap[s]))
    /\ End(s)
    /\ UNCHANGED <<file, history>>

\* reviewRequiredNow: always, or when the task is the last open one of its
\* milestone.
ReviewRequired(t) ==
    \/ Cadence = "per-task"
    \/ /\ Cadence = "milestone-boundary"
       /\ \A u \in Tasks \ {t} : disk[u].state = "done"

DoneBegin(s, t) ==
    /\ phase[s] = "idle" /\ May("done", t)
    /\ disk[t].state = "in-progress"
    /\ Begin(s, t, disk[t], "done")
    /\ UNCHANGED <<disk, file, history>>

\* What a completion takes every directive of the task it has read to.
ResolvesIssued(t, r) ==
    issued' = [issued EXCEPT ![t] =
        [n \in Notes |-> IF n \in PendingDirectives(r) THEN "resolved" ELSE @[n]]]

\* GATES P4, P6 and P5 have been passed, or P5 overridden with a decision.
DoneEnd(s) ==
    /\ phase[s] = "done"
    /\ IntegrityGreen
    /\ \/ /\ ReviewRequired(on[s]) => snap[s].verdict = "pass"
          /\ UNCHANGED overrides
       \/ /\ ReviewRequired(on[s]) /\ snap[s].verdict # "pass"
          /\ overrides' = overrides \cup {on[s]}
    /\ Upsert(on[s], Completed(snap[s]))
    /\ ResolvesIssued(on[s], snap[s])
    /\ End(s)
    /\ UNCHANGED <<file, judged, reblocked>>

ReviewBegin(s, t) ==
    /\ phase[s] = "idle" /\ May("review", t)
    /\ Begin(s, t, disk[t], "review")
    /\ UNCHANGED <<disk, file, history>>

\* The reviewer has returned a verdict, with or without a judgment call.
ReviewEnd(s) ==
    /\ phase[s] = "review"
    /\ \E verdict \in {"pass", "block"}, call \in {"none", "open"} :
          /\ Upsert(on[s], Reviewed(snap[s], verdict, call))
          /\ judged' = IF verdict = "pass"
                       THEN [judged EXCEPT ![on[s]] = snap[s].tests] ELSE judged
    /\ End(s)
    /\ UNCHANGED <<file, issued, overrides, reblocked>>

\* chalk block parks the task and goes on to tell of it.
BlockBegin(s, t) ==
    /\ phase[s] = "idle" /\ May("block", t)
    /\ disk[t].state # "done"
    /\ \E needs \in Needs :
          /\ Upsert(t, BlockedFor(disk[t], needs))
          /\ Begin(s, t, BlockedFor(disk[t], needs), "handoff")
    /\ reblocked' = IF disk[t].state = "blocked" THEN reblocked \cup {t}
                    ELSE reblocked
    /\ UNCHANGED <<file, issued, judged, overrides>>

\* chalk handoff begins where chalk block goes on.
HandoffBegin(s, t) ==
    /\ phase[s] = "idle" /\ May("handoff", t)
    /\ Begin(s, t, disk[t], "handoff")
    /\ UNCHANGED <<disk, file, history>>

\* writeHandoff, after the agent's narrative: the record it was given is written,
\* with the path of the document.
HandoffEnd(s) ==
    /\ phase[s] = "handoff"
    /\ Upsert(on[s], snap[s])
    /\ End(s)
    /\ UNCHANGED <<file, history>>

-----------------------------------------------------------------------------

ShortHandler(t) ==
    \/ Spec(t) \/ Align(t) \/ Start(t) \/ Unblock(t) \/ EditTest(t)
    \/ AmendSpec(t) \/ Raise(t) \/ Answer(t) \/ Accept(t) \/ Redirect(t)

LongHandler(s) ==
    \/ \E t \in Tasks :
          \/ WorkAlreadyVerified(s, t)
          \/ WorkBegin(s, t)
          \/ DoneBegin(s, t)
          \/ ReviewBegin(s, t)
          \/ BlockBegin(s, t)
          \/ HandoffBegin(s, t)
    \/ WorkExecuted(s)
    \/ WorkVerified(s)
    \/ DoneEnd(s)
    \/ ReviewEnd(s)
    \/ HandoffEnd(s)
    \/ Refuse(s)

Next ==
    \/ \E t \in Tasks : ShortHandler(t)
    \/ \E s \in Sessions : LongHandler(s)

LifecycleSpec == Init /\ [][Next]_vars

-----------------------------------------------------------------------------
(* What holds of every record, whichever handlers overlap: each writes the *)
(* record of one moment, changed by one operator.                          *)

\* The re-open marker of a task means that a correction is waiting and the task
\* is not done: resolveDirectives clears both together (store.mjs, needsRework
\* and resolveDirectives).  A marker that outlived its directive would let the
\* driver run an active task a second time.
ReopenedAwaitsRework ==
    \A r \in {disk[t] : t \in Tasks} \cup {snap[s] : s \in Sessions} :
        ReopenedHasDirective(r) /\ (r.reopened => r.state # "done")

\* GATE P1: a task that is ready, in progress or done has criteria.  The one way
\* around `chalk spec` is a task blocked twice, whose second unblock finds no
\* blockedFrom and falls back to 'specd'.
CriteriaUnlessReblocked ==
    \A t \in Tasks : HasCriteria(disk[t]) \/ t \in reblocked

\* A blocked task says what it needs and where to resume, which unblock, the
\* answer to its last raise and a passing review rely on; blocking it a second
\* time is what breaks that.
BlockedCanResume ==
    \A t \in Tasks :
        disk[t].state = "blocked" /\ t \notin reblocked =>
            /\ disk[t].needs # "none"
            /\ disk[t].from \notin {"none", "blocked", "done"}

-----------------------------------------------------------------------------
(* What holds when no other command is issued on a task during a long      *)
(* handler on it, but for what its agent does: an executor raises forks,   *)
(* and the test file may change under the executor and the reviewer.       *)

\* No correction is lost: what the director was asked, answered or redirected
\* is on the task with the status it was given, until a completion resolves it.
CorrectionsSurvive ==
    \A t \in Tasks : disk[t].note = issued[t]

\* chalk work never marks a task verified while the director owes it an answer
\* ("pause for the director instead of proceeding to verify/done on a guessed
\* choice"), although the executor raises the fork in another process.
NoVerifyOnOpenFork ==
    [][\A t \in Tasks :
          ~disk[t].verified /\ disk'[t].verified =>
              \A n \in Notes : issued[t][n] # "raised"]_vars

\* GATES P5 and P6 together.  A task is completed on the test it is locked to, if
\* it is locked to one; and where a review is due, it has passed one, and the lock
\* it passed under is still its lock: no command takes "a pass, then weaken the
\* locked test, then merge on the stale approval" (amend-spec).  Or the override
\* was logged.  What no gate asks is that there was a lock when the review
\* passed: `chalk spec --test` adds one to a task that has none and leaves the
\* pass standing.
DoneOnApprovedTest ==
    [][\A t \in Tasks :
          disk[t].state # "done" /\ disk'[t].state = "done" =>
              /\ disk'[t].tests \subseteq {file[t]}
              /\ ReviewRequired(t) /\ t \notin overrides' =>
                    disk'[t].verdict = "pass" /\ judged'[t] \subseteq disk'[t].tests]_vars

=============================================================================
