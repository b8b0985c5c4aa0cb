----------------------------- MODULE TaskRecord ------------------------------
(***************************************************************************)
(* A task of tasks.json as the handlers of bin/chalk.mjs and the driver of *)
(* lib/run.mjs read and write it, and the change each handler makes to the *)
(* record it has read.  Every operator below is the assignment part of one *)
(* handler: a function of the record alone, since Store.upsertTask writes  *)
(* the whole record back.                                                  *)
(*                                                                         *)
(* A note is one correction by the director: it begins as a fork the agent *)
(* raised (task.raised) or as a redirected call, becomes a directive of    *)
(* the task (task.directives) and is in the end resolved.                  *)
(***************************************************************************)
EXTENDS Naturals

CONSTANTS
    Notes,  \* the director's corrections
    MaxRev  \* bound: revisions of a task's test file

ASSUME RecordAssumption == MaxRev \in Nat

\* What a task's test file may read; a task has one such file.
Revisions == 0..MaxRev

\* TASK_STATES of lib/store.mjs.
States == {"todo", "specd", "in-progress", "blocked", "done"}

\* task.block.needs: `review` is the agent's own work, `decision` waits for an
\* answer; the rest of NEEDS is told apart by nothing and is one value here.
Needs == {"review", "decision", "human-input"}

\* The verdict of the last entry of task.reviews.
Verdicts == {"none", "pass", "block", "stale"}

\* The judgment call of the last entry of task.reviews, if it carries one.
Calls == {"none", "open", "accepted", "redirected"}

NoteStatus == {"none", "raised", "directed", "resolved"}

Record == [
    state     : States,
    criteria  : BOOLEAN,                 \* task.acceptanceCriteria is not empty
    tests     : SUBSET Revisions,        \* the hashes of task.tests: one at most
    aligned   : BOOLEAN,                 \* task.criteriaAccepted
    verified  : BOOLEAN,                 \* stageDone(t, 'verified')
    verdict   : Verdicts,
    call      : Calls,
    needs     : Needs \cup {"none"},     \* task.block
    from      : States \cup {"none"},    \* task.blockedFrom
    note      : [Notes -> NoteStatus],
    reopened  : BOOLEAN]                 \* task.reopenedAt is set

\* task add
Created == [
    state |-> "todo", criteria |-> FALSE, tests |-> {}, aligned |-> FALSE,
    verified |-> FALSE, verdict |-> "none", call |-> "none", needs |-> "none",
    from |-> "none", note |-> [n \in Notes |-> "none"], reopened |-> FALSE]

\* GATE P1: the task has criteria or a locked test.
Specified(r) == r.criteria \/ r.tests # {}

-----------------------------------------------------------------------------
(* lib/store.mjs: pendingDirectives, openRaises, needsRework.              *)

PendingDirectives(r) == {n \in Notes : r.note[n] = "directed"}
OpenRaises(r) == {n \in Notes : r.note[n] = "raised"}
\* Mutant: every task with a pending directive is taken up for rework.
NeedsReworkAnyway(r) == PendingDirectives(r) # {}

NeedsRework(r) == r.reopened /\ PendingDirectives(r) # {}

\* Mutant: the directives are resolved and the re-open marker is forgotten.
ResolveDirectivesOnly(r) ==
    [r EXCEPT !.note = [n \in Notes |->
                            IF @[n] = "directed" THEN "resolved" ELSE @[n]]]

\* resolveDirectives: what is pending is resolved; the re-open marker goes with it.
ResolveDirectives(r) ==
    [r EXCEPT !.note = [n \in Notes |->
                            IF @[n] = "directed" THEN "resolved" ELSE @[n]],
              !.reopened = @ /\ PendingDirectives(r) = {}]

-----------------------------------------------------------------------------
(* What each handler assigns.                                              *)

\* chalk spec: a criterion is attached, or the test file is locked as it reads now
\* (`lock` is its revision, or empty); a lock there is already is kept.  A
\* standing pass is left standing.
Specced(r, criterion, lock) ==
    [r EXCEPT !.criteria = @ \/ criterion,
              !.tests = IF @ = {} THEN lock ELSE @,
              !.state = IF @ = "todo" THEN "specd" ELSE @]

\* chalk align
Aligned(r) == [r EXCEPT !.aligned = TRUE]

\* chalk start, and the driver: the block fields are left as they are.
Started(r) == [r EXCEPT !.state = "in-progress"]

\* Mutant: the state to resume is not recorded.
BlockedForgetting(r, needs) == [r EXCEPT !.state = "blocked", !.needs = needs]

\* chalk block, and blockTask of the driver.
BlockedFor(r, needs) ==
    [r EXCEPT !.state = "blocked", !.from = r.state, !.needs = needs]

\* Mutant: no default for a missing blockedFrom.
RestoredBlindly(r, default) ==
    [r EXCEPT !.state = r.from, !.from = "none", !.needs = "none"]

\* Restoring task.blockedFrom, or `default` when the field is not there.
Restored(r, default) ==
    [r EXCEPT !.state = IF r.from = "none" THEN default ELSE r.from,
              !.from = "none", !.needs = "none"]

\* chalk unblock
Unblocked(r) == Restored(r, "specd")

\* chalk work, before the executor runs.
PickedUp(r) ==
    IF r.state \in {"todo", "specd"} THEN Started(r) ELSE r

\* chalk work, after the gates.
Verified(r) == [r EXCEPT !.verified = TRUE]

\* clearReviewBlockOnPass
ClearReviewBlockOnPass(r) ==
    IF r.state = "blocked" /\ r.needs = "review"
    THEN Restored(r, "in-progress") ELSE r

\* chalk review: a new entry of task.reviews, with or without a judgment call.
Reviewed(r, verdict, call) ==
    LET s == [r EXCEPT !.verdict = verdict, !.call = call]
    IN  IF verdict = "pass" THEN ClearReviewBlockOnPass(s) ELSE s

\* Mutant: a standing pass survives the amendment.
AmendedKeepingPass(r, rev) == [r EXCEPT !.tests = {rev}]

\* chalk amend-spec: the test is locked as it reads now, whether it was locked
\* before or not; a standing pass is followed by an entry with the verdict
\* 'stale' and no judgment call.
Amended(r, rev) ==
    [r EXCEPT !.tests = {rev},
              !.verdict = IF @ = "pass" THEN "stale" ELSE @,
              !.call = IF r.verdict = "pass" THEN "none" ELSE @]

\* chalk done
Completed(r) == ResolveDirectives([r EXCEPT !.state = "done"])

\* chalk raise
Raised(r, n) == [r EXCEPT !.note[n] = "raised"]

\* chalk pending answer: the answer becomes a directive; the last open raise of
\* a task that waits for a decision lets it go on.
Answered(r, n) ==
    LET s == [r EXCEPT !.note[n] = "directed"]
    IN  IF s.state = "blocked" /\ s.needs = "decision" /\ OpenRaises(s) = {}
        THEN Restored(s, "in-progress") ELSE s

\* chalk pending redirect: a done task is re-opened.
Redirected(r, n) ==
    [r EXCEPT !.call = "redirected",
              !.note[n] = "directed",
              !.state = IF @ = "done" THEN "in-progress" ELSE @,
              !.reopened = @ \/ r.state = "done"]

\* chalk pending accept
Accepted(r) == [r EXCEPT !.call = "accepted"]

-----------------------------------------------------------------------------

\* A re-opened task has an unresolved correction: the marker is set with a
\* directive and leaves with the last one.
ReopenedHasDirective(r) == r.reopened => PendingDirectives(r) # {}

\* A started or finished task has criteria (P1), unless it owes its state to
\* the default of an unblock without a blockedFrom.
HasCriteria(r) == r.state \in {"specd", "in-progress", "done"} => Specified(r)
=============================================================================
