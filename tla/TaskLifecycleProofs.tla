------------------------ MODULE TaskLifecycleProofs --------------------------
(***************************************************************************)
(* What TLAPS proves of TaskLifecycle, for every set of tasks, sessions,   *)
(* corrections and commands.                                               *)
(***************************************************************************)
EXTENDS TaskLifecycle, TLAPS

-----------------------------------------------------------------------------
(* The operators of TaskRecord are closed under Record.                    *)

LEMMA CreatedIsRecord == Created \in Record
BY RecordAssumption DEF Created, Record, States, Verdicts, Calls, Needs, NoteStatus

LEMMA RestoredIsRecord ==
    ASSUME NEW r \in Record, NEW d \in States
    PROVE  Restored(r, d) \in Record
BY DEF Restored, Record

LEMMA SimpleOpsAreRecords ==
    ASSUME NEW r \in Record
    PROVE  /\ Started(r) \in Record
           /\ PickedUp(r) \in Record
           /\ Verified(r) \in Record
           /\ Accepted(r) \in Record
           /\ Aligned(r) \in Record
           /\ \A needs \in Needs : BlockedFor(r, needs) \in Record
           /\ \A f \in Revisions : Amended(r, f) \in Record
<1>2. Started(r) \in Record
  BY DEF Started, Record, States
<1>3. PickedUp(r) \in Record
  BY <1>2 DEF PickedUp
<1>4. Verified(r) \in Record
  BY DEF Verified, Record
<1>5. Accepted(r) \in Record
  BY DEF Accepted, Record, Calls
<1>6. ASSUME NEW needs \in Needs PROVE BlockedFor(r, needs) \in Record
  BY DEF BlockedFor, Record, States, Needs
<1>7. ASSUME NEW f \in Revisions PROVE Amended(r, f) \in Record
  BY DEF Amended, Record, Verdicts, Calls
<1>8. Aligned(r) \in Record
  BY DEF Aligned, Record
<1> QED
  BY <1>2, <1>3, <1>4, <1>5, <1>6, <1>7, <1>8

\* What chalk spec leaves of a record: the lock and the verdict that are there stay.
LEMMA SpeccedKeeps ==
    ASSUME NEW r \in Record, NEW c \in BOOLEAN, NEW l \in SUBSET Revisions
    PROVE  LET x == Specced(r, c, l)
           IN  /\ x \in Record
               /\ x.note = r.note /\ x.reopened = r.reopened /\ x.call = r.call
               /\ x.verdict = r.verdict /\ x.verified = r.verified
               /\ x.from = r.from /\ x.needs = r.needs
               /\ r.tests \subseteq x.tests
               /\ Specified(r) \/ c \/ l # {} => Specified(x)
               /\ x.state = r.state \/ (r.state = "todo" /\ x.state = "specd")
BY DEF Specced, Specified, Record, States

\* What is written when chalk spec is issued.
LEMMA SpecWrites ==
    ASSUME TypeOK, NEW t \in Tasks, Spec(t)
    PROVE  /\ May("spec", t)
           /\ \E c \in BOOLEAN, l \in SUBSET Revisions :
                 (c \/ l # {}) /\ Upsert(t, Specced(disk[t], c, l))
           /\ UNCHANGED <<file, sessions, history>>
BY DEF Spec, TypeOK

LEMMA ReviewedIsRecord ==
    ASSUME NEW r \in Record, NEW v \in Verdicts, NEW c \in Calls
    PROVE  Reviewed(r, v, c) \in Record
<1> DEFINE s == [r EXCEPT !.verdict = v, !.call = c]
<1>1. s \in Record
  BY DEF Record
<1>2. ClearReviewBlockOnPass(s) \in Record
  BY <1>1, RestoredIsRecord DEF ClearReviewBlockOnPass, States
<1> QED
  BY <1>1, <1>2 DEF Reviewed

LEMMA NoteOpsAreRecords ==
    ASSUME NEW r \in Record
    PROVE  /\ ResolveDirectives(r) \in Record
           /\ \A n \in Notes : /\ Raised(r, n) \in Record
                               /\ Answered(r, n) \in Record
                               /\ Redirected(r, n) \in Record
<1>1. r.note \in [Notes -> NoteStatus] /\ r.reopened \in BOOLEAN
  BY DEF Record
<1>2. ResolveDirectives(r) \in Record
  <2> DEFINE nt == [n \in Notes |-> IF r.note[n] = "directed" THEN "resolved" ELSE r.note[n]]
             ro == r.reopened /\ PendingDirectives(r) = {}
  <2>1. nt \in [Notes -> NoteStatus]
    BY <1>1 DEF NoteStatus
  <2>2. ro \in BOOLEAN
    OBVIOUS
  <2>3. ResolveDirectives(r) = [r EXCEPT !.note = nt, !.reopened = ro]
    BY DEF ResolveDirectives
  <2> HIDE DEF nt, ro
  <2> QED
    BY <2>1, <2>2, <2>3 DEF Record
<1>3. ASSUME NEW n \in Notes
      PROVE  /\ Raised(r, n) \in Record
             /\ Answered(r, n) \in Record
             /\ Redirected(r, n) \in Record
  <2> DEFINE up(x) == [r.note EXCEPT ![n] = x]
  <2>1. up("raised") \in [Notes -> NoteStatus] /\ up("directed") \in [Notes -> NoteStatus]
    BY <1>1 DEF NoteStatus
  <2>2. Raised(r, n) = [r EXCEPT !.note = up("raised")]
    BY DEF Raised
  <2>3. Raised(r, n) \in Record
    <3> HIDE DEF up
    <3> QED BY <2>1, <2>2 DEF Record
  <2> DEFINE s == [r EXCEPT !.note[n] = "directed"]
  <2>4. s \in Record
    <3>1. s = [r EXCEPT !.note = up("directed")]
      OBVIOUS
    <3> HIDE DEF up, s
    <3> QED BY <2>1, <3>1 DEF Record
  <2>5. Answered(r, n) \in Record
    <3>1. Restored(s, "in-progress") \in Record
      BY <2>4, RestoredIsRecord DEF States
    <3> QED BY <2>4, <3>1 DEF Answered
  <2>6. Redirected(r, n) \in Record
    <3>1. Redirected(r, n) = [s EXCEPT !.call = "redirected",
                !.state = IF @ = "done" THEN "in-progress" ELSE @,
                !.reopened = @ \/ r.state = "done"]
      BY DEF Redirected, Record
    <3> HIDE DEF s
    <3> QED BY <2>4, <3>1 DEF Record, States, Calls
  <2> QED
    BY <2>3, <2>5, <2>6
<1> QED
  BY <1>2, <1>3

LEMMA CompletedIsRecord ==
    ASSUME NEW r \in Record
    PROVE  Completed(r) \in Record
<1>1. [r EXCEPT !.state = "done"] \in Record
  BY DEF Record, States
<1> QED
  BY <1>1, NoteOpsAreRecords DEF Completed

-----------------------------------------------------------------------------
(* Type correctness.                                                       *)

LEMMA InitTyped == Init => TypeOK
<1>1. Created.note \in [Notes -> NoteStatus]
  BY DEF Created, NoteStatus
<1>2. 0 \in Revisions
  BY RecordAssumption DEF Revisions
<1> QED
  BY <1>1, <1>2, CreatedIsRecord DEF Init, TypeOK, Phases

LEMMA ShortHandlerTyped ==
    ASSUME TypeOK, NEW t \in Tasks, ShortHandler(t)
    PROVE  TypeOK'
<1> USE DEF TypeOK, Upsert, sessions, history
<1>0. disk[t] \in Record /\ file[t] \in Revisions
  OBVIOUS
<1>1. CASE Spec(t)
  <2>1. PICK c \in BOOLEAN, l \in SUBSET Revisions : Upsert(t, Specced(disk[t], c, l))
    BY <1>1, SpecWrites
  <2>2. Specced(disk[t], c, l) \in Record
    BY <1>0, SpeccedKeeps
  <2>3. UNCHANGED <<file, sessions, history>>
    BY <1>1, SpecWrites
  <2> QED BY <2>1, <2>2, <2>3
<1>2. CASE Start(t)
  BY <1>0, <1>2, SimpleOpsAreRecords DEF Start
<1>4. CASE Unblock(t)
  <2>1. Unblocked(disk[t]) \in Record
    BY <1>0, RestoredIsRecord DEF Unblocked, States
  <2> QED BY <1>4, <2>1 DEF Unblock
<1>5. CASE EditTest(t)
  BY <1>0, <1>5 DEF EditTest
<1>6. CASE AmendSpec(t)
  BY <1>0, <1>6, SimpleOpsAreRecords DEF AmendSpec
<1>7. CASE Raise(t)
  <2>1. PICK n \in Notes : Upsert(t, Raised(disk[t], n)) /\ Issue(t, n, "raised")
    BY <1>7 DEF Raise
  <2>2. issued' \in [Tasks -> [Notes -> NoteStatus]]
    BY <2>1 DEF Issue, NoteStatus
  <2> QED BY <1>0, <1>7, <2>1, <2>2, NoteOpsAreRecords DEF Raise
<1>8. CASE Answer(t)
  <2>1. PICK n \in OpenRaises(disk[t]) :
            Upsert(t, Answered(disk[t], n)) /\ Issue(t, n, "directed")
    BY <1>8 DEF Answer
  <2>2. n \in Notes
    BY <2>1 DEF OpenRaises
  <2>3. issued' \in [Tasks -> [Notes -> NoteStatus]]
    BY <2>1, <2>2 DEF Issue, NoteStatus
  <2> QED BY <1>0, <1>8, <2>1, <2>2, <2>3, NoteOpsAreRecords DEF Answer
<1>9. CASE Accept(t)
  BY <1>0, <1>9, SimpleOpsAreRecords DEF Accept
<1>10. CASE Redirect(t)
  <2>1. PICK n \in Notes : Upsert(t, Redirected(disk[t], n)) /\ Issue(t, n, "directed")
    BY <1>10 DEF Redirect
  <2>2. issued' \in [Tasks -> [Notes -> NoteStatus]]
    BY <2>1 DEF Issue, NoteStatus
  <2> QED BY <1>0, <1>10, <2>1, <2>2, NoteOpsAreRecords DEF Redirect
<1>11. CASE Align(t)
  BY <1>0, <1>11, SimpleOpsAreRecords DEF Align
<1> QED
  BY <1>1, <1>2, <1>4, <1>5, <1>6, <1>7, <1>8, <1>9, <1>10, <1>11 DEF ShortHandler

LEMMA LongHandlerTyped ==
    ASSUME TypeOK, NEW s \in Sessions, LongHandler(s), on[s] = NoTask <=> phase[s] = "idle"
    PROVE  TypeOK'
<1> USE DEF TypeOK, Upsert, Begin, End, sessions, history, Phases
<1>0. /\ \A t \in Tasks : disk[t] \in Record
      /\ snap[s] \in Record /\ snap[s].tests \in SUBSET Revisions
      /\ phase[s] # "idle" => on[s] \in Tasks
      /\ Created \in Record
  BY CreatedIsRecord DEF Record
<1>1. ASSUME NEW t \in Tasks, WorkAlreadyVerified(s, t) PROVE TypeOK'
  BY <1>1 DEF WorkAlreadyVerified, vars
<1>2. ASSUME NEW t \in Tasks, WorkBegin(s, t) PROVE TypeOK'
  <2>1. PickedUp(disk[t]) \in Record
    BY <1>0, SimpleOpsAreRecords
  <2> QED BY <1>0, <1>2, <2>1 DEF WorkBegin
<1>3. ASSUME NEW t \in Tasks, DoneBegin(s, t) PROVE TypeOK'
  BY <1>0, <1>3 DEF DoneBegin
<1>4. ASSUME NEW t \in Tasks, ReviewBegin(s, t) PROVE TypeOK'
  BY <1>0, <1>4 DEF ReviewBegin
<1>5. CASE WorkExecuted(s)
  BY <1>0, <1>5 DEF WorkExecuted
<1>6. CASE WorkVerified(s)
  <2>1. Verified(snap[s]) \in Record
    BY <1>0, SimpleOpsAreRecords
  <2> QED BY <1>0, <1>6, <2>1 DEF WorkVerified
<1>7. CASE DoneEnd(s)
  <2>1. Completed(snap[s]) \in Record
    BY <1>0, CompletedIsRecord
  <2>2. on[s] \in Tasks
    BY <1>0, <1>7 DEF DoneEnd
  <2>3. issued' \in [Tasks -> [Notes -> NoteStatus]]
    BY <1>7, <2>2 DEF DoneEnd, ResolvesIssued, NoteStatus
  <2>4. overrides' \subseteq Tasks
    BY <1>7, <2>2 DEF DoneEnd
  <2> QED BY <1>0, <1>7, <2>1, <2>2, <2>3, <2>4 DEF DoneEnd
<1>8. CASE ReviewEnd(s)
  <2>1. PICK v \in {"pass", "block"}, c \in {"none", "open"} :
           /\ Upsert(on[s], Reviewed(snap[s], v, c))
           /\ judged' = IF v = "pass" THEN [judged EXCEPT ![on[s]] = snap[s].tests]
                        ELSE judged
    BY <1>8 DEF ReviewEnd
  <2>2. Reviewed(snap[s], v, c) \in Record
    BY <1>0, ReviewedIsRecord DEF Verdicts, Calls
  <2>3. judged' \in [Tasks -> SUBSET Revisions]
    BY <1>0, <2>1
  <2> QED BY <1>0, <1>8, <2>1, <2>2, <2>3 DEF ReviewEnd
<1>9. CASE Refuse(s)
  BY <1>0, <1>9 DEF Refuse
<1>10. ASSUME NEW t \in Tasks, BlockBegin(s, t) PROVE TypeOK'
  <2>1. PICK needs \in Needs : /\ Upsert(t, BlockedFor(disk[t], needs))
                               /\ Begin(s, t, BlockedFor(disk[t], needs), "handoff")
    BY <1>10 DEF BlockBegin
  <2>2. BlockedFor(disk[t], needs) \in Record
    BY <1>0, SimpleOpsAreRecords
  <2>3. reblocked' \subseteq Tasks /\ UNCHANGED <<file, issued, judged, overrides>>
    BY <1>10 DEF BlockBegin
  <2> QED BY <2>1, <2>2, <2>3
<1>11. ASSUME NEW t \in Tasks, HandoffBegin(s, t) PROVE TypeOK'
  BY <1>0, <1>11 DEF HandoffBegin
<1>12. CASE HandoffEnd(s)
  BY <1>0, <1>12 DEF HandoffEnd
<1> QED
  BY <1>1, <1>2, <1>3, <1>4, <1>5, <1>6, <1>7, <1>8, <1>9, <1>10, <1>11, <1>12
  DEF LongHandler

\* A session is about a task exactly while it is in a handler, and otherwise
\* holds the record it was initialised with.
SessionsConsistent ==
    \A s \in Sessions :
        /\ on[s] = NoTask <=> phase[s] = "idle"
        /\ on[s] = NoTask => snap[s] = Created

LEMMA StepConsistent ==
    ASSUME TypeOK, SessionsConsistent, [Next]_vars
    PROVE  SessionsConsistent'
<1> USE DEF SessionsConsistent, TypeOK
<1>1. ASSUME NEW t \in Tasks, ShortHandler(t) PROVE UNCHANGED <<phase, on, snap>>
  BY <1>1 DEF ShortHandler, Spec, Align, Start, Unblock, EditTest, AmendSpec, Raise,
     Answer, Accept, Redirect, sessions
<1>2. ASSUME NEW s \in Sessions, LongHandler(s) PROVE SessionsConsistent'
  <2>1. ASSUME NEW t \in Tasks, NEW r, NEW f \in Phases \ {"idle"}, Begin(s, t, r, f)
        PROVE  SessionsConsistent'
    BY <2>1, LifecycleAssumption DEF Begin
  <2>2. CASE End(s)
    BY <2>2 DEF End
  <2>3. CASE WorkExecuted(s)
    BY <2>3 DEF WorkExecuted
  <2>4. ASSUME NEW t \in Tasks, WorkAlreadyVerified(s, t) PROVE SessionsConsistent'
    BY <2>4 DEF WorkAlreadyVerified, vars, sessions
  <2>5. ASSUME NEW t \in Tasks,
               \/ WorkBegin(s, t) \/ DoneBegin(s, t) \/ ReviewBegin(s, t)
               \/ BlockBegin(s, t) \/ HandoffBegin(s, t)
        PROVE  SessionsConsistent'
    BY <2>1, <2>5 DEF WorkBegin, DoneBegin, ReviewBegin, BlockBegin, HandoffBegin, Phases
  <2>6. CASE WorkVerified(s) \/ DoneEnd(s) \/ ReviewEnd(s) \/ HandoffEnd(s) \/ Refuse(s)
    BY <2>2, <2>6 DEF WorkVerified, DoneEnd, ReviewEnd, HandoffEnd, Refuse
  <2> QED
    BY <1>2, <2>3, <2>4, <2>5, <2>6 DEF LongHandler
<1>3. CASE UNCHANGED vars
  BY <1>3 DEF vars
<1> QED
  BY <1>1, <1>2, <1>3 DEF Next

\* Every record, file and history variable keeps its type.
THEOREM LifecycleTypeCorrect == LifecycleSpec => []TypeOK
<1> DEFINE TInv == TypeOK /\ SessionsConsistent
<1>1. Init => TInv
  BY InitTyped DEF Init, SessionsConsistent
<1>2. TInv /\ [Next]_vars => TInv'
  <2> SUFFICES ASSUME TInv, [Next]_vars PROVE TInv'
    OBVIOUS
  <2>1. TypeOK'
    <3>1. CASE UNCHANGED vars
      BY <3>1 DEF TypeOK, vars
    <3> QED
      BY <3>1, ShortHandlerTyped, LongHandlerTyped DEF Next, SessionsConsistent
  <2> QED
    BY <2>1, StepConsistent
<1> QED
  BY <1>1, <1>2, PTL DEF LifecycleSpec

-----------------------------------------------------------------------------
(* What no interleaving of handlers breaks: the invariant of one record.   *)

\* A record that resumes where it can and has the criteria its state asks for.
Resumable(r) ==
    /\ HasCriteria(r)
    /\ r.state = "blocked" =>
          /\ r.needs # "none"
          /\ r.from \in {"todo", "specd", "in-progress"}
          /\ r.from # "todo" => Specified(r)

\* The re-open marker, and that nothing is resumed as done.
Marked(r) ==
    /\ ReopenedHasDirective(r)
    /\ r.reopened => r.state # "done"
    /\ r.from # "done"

\* A correction is on a record only after it was issued (i: the task's history),
\* and only a task blocked twice (b) has a record that is not resumable.
RecordOK(t, r, i, b) ==
    /\ Marked(r)
    /\ \A n \in Notes : i[n] = "none" => r.note[n] = "none"
    /\ Resumable(r) \/ t \in b

RecordInv ==
    /\ \A t \in Tasks : RecordOK(t, disk[t], issued[t], reblocked)
    /\ \A s \in Sessions :
          /\ on[s] # NoTask => RecordOK(on[s], snap[s], issued[on[s]], reblocked)
          /\ phase[s] = "done" => snap[s].state = "in-progress"

LEMMA RestoredKeeps ==
    ASSUME NEW r \in Record, r.state = "blocked", NEW d \in {"specd", "in-progress"}
    PROVE  /\ Marked(r) => Marked(Restored(r, d))
           /\ Resumable(r) => Resumable(Restored(r, d))
           /\ Restored(r, d).note = r.note
BY DEF Restored, Marked, Resumable, HasCriteria, Specified, ReopenedHasDirective,
   PendingDirectives, Record, States

LEMMA SimpleOpsKeep ==
    ASSUME NEW r \in Record
    PROVE  /\ Marked(r) => Marked(Started(r)) /\ Marked(PickedUp(r))
                           /\ Marked(Verified(r)) /\ Marked(Accepted(r)) /\ Marked(Aligned(r))
           /\ Resumable(r) => /\ Resumable(Verified(r)) /\ Resumable(Accepted(r))
                              /\ Resumable(Aligned(r))
           /\ Specified(r) => Resumable(Started(r))
           /\ Resumable(r) /\ (r.state \in {"todo", "specd"} => Specified(r))
                 => Resumable(PickedUp(r))
           /\ \A op \in {Started(r), PickedUp(r), Verified(r), Accepted(r), Aligned(r)} :
                 op.note = r.note
BY DEF Started, PickedUp, Verified, Accepted, Aligned, Marked, Resumable, HasCriteria,
   Specified, ReopenedHasDirective, PendingDirectives, Record, States

LEMMA SpeccedIsOK ==
    ASSUME NEW r \in Record, NEW c \in BOOLEAN, NEW l \in SUBSET Revisions, c \/ l # {}
    PROVE  /\ Marked(r) => Marked(Specced(r, c, l))
           /\ Resumable(r) => Resumable(Specced(r, c, l))
BY SpeccedKeeps DEF Marked, Resumable, HasCriteria, ReopenedHasDirective, PendingDirectives

LEMMA BlockedForKeeps ==
    ASSUME NEW r \in Record, NEW needs \in Needs, r.state # "done"
    PROVE  /\ Marked(r) => Marked(BlockedFor(r, needs))
           /\ Resumable(r) /\ r.state # "blocked" => Resumable(BlockedFor(r, needs))
           /\ BlockedFor(r, needs).note = r.note
BY DEF BlockedFor, Marked, Resumable, HasCriteria, Specified, ReopenedHasDirective,
   PendingDirectives, Record, States, Needs

LEMMA AmendedKeeps ==
    ASSUME NEW r \in Record, NEW f \in Revisions
    PROVE  /\ Marked(r) => Marked(Amended(r, f))
           /\ Resumable(r) => Resumable(Amended(r, f))
           /\ Amended(r, f).note = r.note
BY DEF Amended, Marked, Resumable, HasCriteria, Specified, ReopenedHasDirective,
   PendingDirectives, Record

LEMMA ReviewedKeeps ==
    ASSUME NEW r \in Record, NEW v \in Verdicts, NEW c \in Calls
    PROVE  /\ Marked(r) => Marked(Reviewed(r, v, c))
           /\ Resumable(r) => Resumable(Reviewed(r, v, c))
           /\ Reviewed(r, v, c).note = r.note
<1> DEFINE s == [r EXCEPT !.verdict = v, !.call = c]
<1>1. /\ s \in Record /\ s.note = r.note
      /\ Marked(r) => Marked(s)
      /\ Resumable(r) => Resumable(s)
  BY DEF Record, Marked, Resumable, HasCriteria, Specified, ReopenedHasDirective,
     PendingDirectives
<1>2. Reviewed(r, v, c) \in {s, Restored(s, "in-progress")}
  BY DEF Reviewed, ClearReviewBlockOnPass
<1>3. Reviewed(r, v, c) # s => s.state = "blocked"
  BY DEF Reviewed, ClearReviewBlockOnPass
<1> HIDE DEF s
<1> QED
  BY <1>1, <1>2, <1>3, RestoredKeeps

LEMMA CompletedKeeps ==
    ASSUME NEW r \in Record, r.state = "in-progress", Marked(r)
    PROVE  /\ Marked(Completed(r))
           /\ Resumable(r) => Resumable(Completed(r))
           /\ \A n \in Notes : Completed(r).note[n] =
                  IF r.note[n] = "directed" THEN "resolved" ELSE r.note[n]
<1> DEFINE nt == [n \in Notes |-> IF r.note[n] = "directed" THEN "resolved" ELSE r.note[n]]
<1>1. Completed(r) = [r EXCEPT !.state = "done", !.note = nt,
                               !.reopened = @ /\ PendingDirectives(r) = {}]
  BY DEF Completed, ResolveDirectives, PendingDirectives, Record
<1>2. ~Completed(r).reopened
  BY <1>1 DEF Marked, ReopenedHasDirective, Record
<1>3. Completed(r).state = "done" /\ Completed(r).from = r.from
      /\ Specified(Completed(r)) = Specified(r) /\ Completed(r).note = nt
  BY <1>1 DEF Record, Specified
<1> QED
  BY <1>2, <1>3 DEF Marked, Resumable, HasCriteria, ReopenedHasDirective

LEMMA NoteOpsKeep ==
    ASSUME NEW r \in Record, NEW n \in Notes, Marked(r)
    PROVE  /\ r.note[n] = "none" => Marked(Raised(r, n))
           /\ Resumable(r) => Resumable(Raised(r, n))
           /\ Marked(Answered(r, n))
           /\ Resumable(r) => Resumable(Answered(r, n))
           /\ Marked(Redirected(r, n))
           /\ Resumable(r) => Resumable(Redirected(r, n))
           /\ Raised(r, n).note = [r.note EXCEPT ![n] = "raised"]
           /\ Answered(r, n).note = [r.note EXCEPT ![n] = "directed"]
           /\ Redirected(r, n).note = [r.note EXCEPT ![n] = "directed"]
<1> DEFINE s == [r EXCEPT !.note[n] = "directed"]
<1>1. r.note \in [Notes -> NoteStatus]
  BY DEF Record
<1>2. /\ Raised(r, n).note = [r.note EXCEPT ![n] = "raised"]
      /\ Raised(r, n).state = r.state /\ Raised(r, n).from = r.from
      /\ Raised(r, n).needs = r.needs /\ Specified(Raised(r, n)) = Specified(r)
      /\ Raised(r, n).reopened = r.reopened
  BY DEF Raised, Record, Specified
<1>3. /\ r.note[n] = "none" => Marked(Raised(r, n))
      /\ Resumable(r) => Resumable(Raised(r, n))
  BY <1>1, <1>2 DEF Marked, Resumable, HasCriteria, ReopenedHasDirective, PendingDirectives
<1>4. /\ s \in Record /\ s.note = [r.note EXCEPT ![n] = "directed"]
      /\ s.state = r.state /\ s.from = r.from /\ s.needs = r.needs
      /\ Specified(s) = Specified(r) /\ s.reopened = r.reopened
  BY <1>1 DEF Record, NoteStatus, Specified
<1>5. n \in PendingDirectives(s)
  BY <1>1, <1>4 DEF PendingDirectives
<1>6. Marked(s) /\ (Resumable(r) => Resumable(s))
  BY <1>4, <1>5 DEF Marked, Resumable, HasCriteria, ReopenedHasDirective
<1>7. /\ Answered(r, n) \in {s, Restored(s, "in-progress")}
      /\ Answered(r, n) # s => s.state = "blocked"
  BY DEF Answered
<1>8. /\ Redirected(r, n).note = s.note /\ Redirected(r, n).from = r.from
      /\ Redirected(r, n).needs = r.needs /\ Specified(Redirected(r, n)) = Specified(s)
      /\ Redirected(r, n).state = IF r.state = "done" THEN "in-progress" ELSE r.state
  BY <1>4 DEF Redirected, Record, Specified
<1>9. Marked(Redirected(r, n)) /\ (Resumable(r) => Resumable(Redirected(r, n)))
  BY <1>4, <1>5, <1>8 DEF Marked, Resumable, HasCriteria, ReopenedHasDirective,
     PendingDirectives
<1> HIDE DEF s
<1> QED
  BY <1>2, <1>3, <1>4, <1>6, <1>7, <1>8, <1>9, RestoredKeeps

\* The histories only grow.
Grows ==
    /\ reblocked \subseteq reblocked'
    /\ \A t \in Tasks, n \in Notes : issued'[t][n] = "none" => issued[t][n] = "none"

LEMMA WriteKeeps ==
    ASSUME TypeOK, SessionsConsistent, RecordInv, Grows, NEW t \in Tasks, NEW r,
           disk' = [disk EXCEPT ![t] = r],
           RecordOK(t, r, issued'[t], reblocked'),
           \A s \in Sessions : \/ on'[s] = on[s] /\ snap'[s] = snap[s] /\ phase'[s] = phase[s]
                               \/ on'[s] = NoTask /\ phase'[s] = "idle"
                               \/ on'[s] = t /\ snap'[s] = r /\ phase'[s] # "done"
    PROVE  RecordInv'
<1>1. ASSUME NEW u \in Tasks PROVE RecordOK(u, disk'[u], issued'[u], reblocked')
  BY <1>1 DEF RecordInv, RecordOK, Grows, TypeOK
<1>2. ASSUME NEW s \in Sessions, on'[s] # NoTask
      PROVE  RecordOK(on'[s], snap'[s], issued'[on'[s]], reblocked')
  <2>1. CASE on'[s] = on[s] /\ snap'[s] = snap[s]
    <3>1. on[s] \in Tasks
      BY <1>2, <2>1 DEF TypeOK
    <3> QED BY <1>2, <2>1, <3>1 DEF RecordInv, RecordOK, Grows
  <2>2. CASE on'[s] = t /\ snap'[s] = r
    BY <2>2
  <2> QED BY <1>2, <2>1, <2>2
<1>3. ASSUME NEW s \in Sessions, phase'[s] = "done" PROVE snap'[s].state = "in-progress"
  BY <1>3 DEF RecordInv
<1> QED
  BY <1>1, <1>2, <1>3 DEF RecordInv

LEMMA ShortHandlerKeeps ==
    ASSUME TypeOK, SessionsConsistent, RecordInv, NEW t \in Tasks, ShortHandler(t)
    PROVE  RecordInv'
<1> DEFINE r == disk[t]
           Writes(x) == /\ disk' = [disk EXCEPT ![t] = x]
                        /\ RecordOK(t, x, issued'[t], reblocked')
<1>0. /\ r \in Record /\ r.note \in [Notes -> NoteStatus]
      /\ RecordOK(t, r, issued[t], reblocked)
      /\ issued[t] \in [Notes -> NoteStatus]
      /\ file[t] \in Revisions
  BY DEF TypeOK, RecordInv, Record
<1>1. ASSUME NEW x, Writes(x), Grows, UNCHANGED <<phase, on, snap>>
      PROVE  RecordInv'
  BY <1>1, WriteKeeps
<1> HIDE DEF r
<1>2. CASE Spec(t)
  <2>1. PICK c \in BOOLEAN, l \in SUBSET Revisions :
           (c \/ l # {}) /\ Upsert(t, Specced(r, c, l))
    BY <1>2, SpecWrites DEF r
  <2>2. UNCHANGED <<sessions, issued, reblocked>> /\ Grows
    BY <1>2, SpecWrites DEF history, Grows
  <2>3. RecordOK(t, Specced(r, c, l), issued'[t], reblocked')
    BY <1>0, <2>1, <2>2, SpeccedKeeps, SpeccedIsOK DEF RecordOK
  <2> QED BY <1>1, <2>1, <2>2, <2>3 DEF Upsert, sessions
<1>3. CASE Start(t)
  <2>1. Writes(Started(r)) /\ Grows
    BY <1>0, <1>3, SimpleOpsKeep DEF Start, Upsert, RecordOK, Grows, history, r
  <2> QED BY <1>1, <1>3, <2>1 DEF Start, sessions
<1>5. CASE Unblock(t)
  <2>1. Writes(Unblocked(r)) /\ Grows
    BY <1>0, <1>5, RestoredKeeps DEF Unblock, Unblocked, Upsert, RecordOK, Grows, history, r
  <2> QED BY <1>1, <1>5, <2>1 DEF Unblock, sessions
<1>6. CASE EditTest(t)
  BY <1>6 DEF EditTest, sessions, history, RecordInv
<1>7. CASE AmendSpec(t)
  <2>1. Writes(Amended(r, file[t])) /\ Grows
    BY <1>0, <1>7, AmendedKeeps DEF AmendSpec, Upsert, RecordOK, Grows, history, r
  <2> QED BY <1>1, <1>7, <2>1 DEF AmendSpec, sessions
<1>8. CASE Raise(t)
  <2>1. PICK n \in Notes : /\ issued[t][n] = "none" /\ Upsert(t, Raised(r, n))
                           /\ Issue(t, n, "raised")
    BY <1>8 DEF Raise, r
  <2>2. r.note[n] = "none"
    BY <1>0, <2>1 DEF RecordOK
  <2>3. issued'[t] = [issued[t] EXCEPT ![n] = "raised"] /\ Grows
    BY <1>8, <2>1 DEF Raise, Issue, Grows, TypeOK
  <2>4. Writes(Raised(r, n))
    <3>1. /\ Marked(Raised(r, n))
          /\ Resumable(r) => Resumable(Raised(r, n))
          /\ Raised(r, n).note = [r.note EXCEPT ![n] = "raised"]
      BY <1>0, <2>1, <2>2, NoteOpsKeep DEF RecordOK
    <3>2. UNCHANGED reblocked
      BY <1>8 DEF Raise
    <3> QED
      BY <1>0, <2>1, <2>2, <2>3, <3>1, <3>2 DEF Upsert, RecordOK, r
  <2> QED BY <1>1, <1>8, <2>3, <2>4 DEF Raise, sessions
<1>9. CASE Answer(t)
  <2>1. PICK n \in OpenRaises(r) : Upsert(t, Answered(r, n)) /\ Issue(t, n, "directed")
    BY <1>9 DEF Answer, r
  <2>2. n \in Notes
    BY <2>1 DEF OpenRaises
  <2>3. issued'[t] = [issued[t] EXCEPT ![n] = "directed"] /\ Grows
    BY <1>9, <2>1, <2>2 DEF Answer, Issue, Grows, TypeOK
  <2>4. Writes(Answered(r, n))
    <3>1. /\ Marked(Answered(r, n))
          /\ Resumable(r) => Resumable(Answered(r, n))
          /\ Answered(r, n).note = [r.note EXCEPT ![n] = "directed"]
      BY <1>0, <2>2, NoteOpsKeep DEF RecordOK
    <3>2. UNCHANGED reblocked
      BY <1>9 DEF Answer
    <3> QED
      BY <1>0, <2>1, <2>2, <2>3, <3>1, <3>2 DEF Upsert, RecordOK, r
  <2> QED BY <1>1, <1>9, <2>3, <2>4 DEF Answer, sessions
<1>10. CASE Accept(t)
  <2>1. Writes(Accepted(r)) /\ Grows
    BY <1>0, <1>10, SimpleOpsKeep DEF Accept, Upsert, RecordOK, Grows, history, r
  <2> QED BY <1>1, <1>10, <2>1 DEF Accept, sessions
<1>11. CASE Redirect(t)
  <2>1. PICK n \in Notes : Upsert(t, Redirected(r, n)) /\ Issue(t, n, "directed")
    BY <1>11 DEF Redirect, r
  <2>2. issued'[t] = [issued[t] EXCEPT ![n] = "directed"] /\ Grows
    BY <1>11, <2>1 DEF Redirect, Issue, Grows, TypeOK
  <2>3. Writes(Redirected(r, n))
    <3>1. /\ Marked(Redirected(r, n))
          /\ Resumable(r) => Resumable(Redirected(r, n))
          /\ Redirected(r, n).note = [r.note EXCEPT ![n] = "directed"]
      BY <1>0, <2>1, NoteOpsKeep DEF RecordOK
    <3>2. UNCHANGED reblocked
      BY <1>11 DEF Redirect
    <3> QED
      BY <1>0, <2>1, <2>2, <3>1, <3>2 DEF Upsert, RecordOK, r
  <2> QED BY <1>1, <1>11, <2>2, <2>3 DEF Redirect, sessions
<1>12. CASE Align(t)
  <2>1. Writes(Aligned(r)) /\ Grows
    BY <1>0, <1>12, SimpleOpsKeep DEF Align, Upsert, RecordOK, Grows, history, r
  <2> QED BY <1>1, <1>12, <2>1 DEF Align, sessions
<1> QED
  BY <1>2, <1>3, <1>5, <1>6, <1>7, <1>8, <1>9, <1>10, <1>11, <1>12 DEF ShortHandler

LEMMA LongHandlerKeeps ==
    ASSUME TypeOK, SessionsConsistent, RecordInv, NEW s \in Sessions, LongHandler(s)
    PROVE  RecordInv'
<1> DEFINE t == on[s]
           r == snap[s]
<1>0. ASSUME phase[s] # "idle"
      PROVE  /\ t \in Tasks /\ r \in Record /\ r.note \in [Notes -> NoteStatus]
             /\ RecordOK(t, r, issued[t], reblocked)
             /\ issued[t] \in [Notes -> NoteStatus]
  <2>1. t \in Tasks
    BY <1>0 DEF TypeOK, SessionsConsistent
  <2>2. r \in Record
    BY DEF TypeOK
  <2> QED BY <2>1, <2>2, LifecycleAssumption DEF TypeOK, RecordInv, Record
<1>1. ASSUME NEW x, phase[s] # "idle", Grows, End(s), Upsert(t, x),
             RecordOK(t, x, issued'[t], reblocked')
      PROVE  RecordInv'
  <2>1. t \in Tasks
    BY <1>0, <1>1
  <2>2. \A u \in Sessions : \/ on'[u] = on[u] /\ snap'[u] = snap[u] /\ phase'[u] = phase[u]
                            \/ on'[u] = NoTask /\ phase'[u] = "idle"
    BY <1>1 DEF End, TypeOK
  <2> QED BY <1>1, <2>1, <2>2, WriteKeeps DEF Upsert
<1>2. ASSUME NEW u \in Tasks, WorkAlreadyVerified(s, u) PROVE RecordInv'
  BY <1>2 DEF WorkAlreadyVerified, vars, sessions, RecordInv
<1>3. ASSUME NEW u \in Tasks, WorkBegin(s, u) PROVE RecordInv'
  <2> DEFINE x == PickedUp(disk[u])
  <2>1. disk[u] \in Record /\ RecordOK(u, disk[u], issued[u], reblocked)
    BY DEF TypeOK, RecordInv
  <2>2. UNCHANGED <<issued, reblocked>> /\ Grows
    BY <1>3 DEF WorkBegin, history, Grows
  <2>3. RecordOK(u, x, issued'[u], reblocked')
    BY <1>3, <2>1, <2>2, SimpleOpsKeep DEF WorkBegin, RecordOK
  <2>4. disk' = [disk EXCEPT ![u] = x]
    BY <1>3 DEF WorkBegin, Upsert
  <2> HIDE DEF x
  <2>5. \A z \in Sessions : \/ on'[z] = on[z] /\ snap'[z] = snap[z] /\ phase'[z] = phase[z]
                            \/ on'[z] = u /\ snap'[z] = x /\ phase'[z] = "executor"
    BY <1>3 DEF WorkBegin, Begin, TypeOK, x
  <2> QED BY <2>2, <2>3, <2>4, <2>5, WriteKeeps
<1>4. ASSUME NEW u \in Tasks, DoneBegin(s, u) \/ ReviewBegin(s, u) \/ HandoffBegin(s, u)
      PROVE  RecordInv'
  <2>1. UNCHANGED <<disk, issued, reblocked>>
    BY <1>4 DEF DoneBegin, ReviewBegin, HandoffBegin, history
  <2>2. \A z \in Sessions :
           \/ on'[z] = on[z] /\ snap'[z] = snap[z] /\ phase'[z] = phase[z]
           \/ on'[z] = u /\ snap'[z] = disk[u]
              /\ (phase'[z] = "done" => disk[u].state = "in-progress")
    BY <1>4 DEF DoneBegin, ReviewBegin, HandoffBegin, Begin, TypeOK
  <2> QED BY <2>1, <2>2 DEF RecordInv
<1>5. CASE WorkExecuted(s)
  BY <1>5 DEF WorkExecuted, history, RecordInv, TypeOK
<1>6. CASE WorkVerified(s)
  <2>1. Grows /\ UNCHANGED <<issued, reblocked>>
    BY <1>6 DEF WorkVerified, history, Grows
  <2>2. phase[s] # "idle" /\ RecordOK(t, Verified(r), issued'[t], reblocked')
    BY <1>0, <1>6, <2>1, SimpleOpsKeep DEF WorkVerified, RecordOK
  <2> QED BY <1>1, <1>6, <2>1, <2>2 DEF WorkVerified
<1>7. CASE DoneEnd(s)
  <2>1. phase[s] = "done" /\ r.state = "in-progress" /\ UNCHANGED reblocked
    BY <1>7 DEF DoneEnd, RecordInv
  <2>2. t \in Tasks /\ issued' = [issued EXCEPT ![t] =
            [n \in Notes |-> IF n \in PendingDirectives(r) THEN "resolved" ELSE @[n]]]
    BY <1>0, <1>7, <2>1 DEF DoneEnd, ResolvesIssued
  <2>3. Grows
    BY <2>1, <2>2 DEF Grows, TypeOK
  <2>4. RecordOK(t, Completed(r), issued'[t], reblocked')
    BY <1>0, <2>1, <2>2, <2>3, CompletedKeeps DEF RecordOK, Grows
  <2> QED BY <1>1, <1>7, <2>1, <2>3, <2>4 DEF DoneEnd
<1>8. CASE ReviewEnd(s)
  <2>1. PICK v \in {"pass", "block"}, c \in {"none", "open"} : Upsert(t, Reviewed(r, v, c))
    BY <1>8 DEF ReviewEnd
  <2>2. phase[s] # "idle" /\ Grows /\ UNCHANGED <<issued, reblocked>>
    BY <1>8 DEF ReviewEnd, Grows
  <2>3. RecordOK(t, Reviewed(r, v, c), issued'[t], reblocked')
    BY <1>0, <2>2, ReviewedKeeps DEF RecordOK, Verdicts, Calls
  <2> QED BY <1>1, <1>8, <2>1, <2>2, <2>3 DEF ReviewEnd
<1>9. CASE Refuse(s)
  <2>1. UNCHANGED <<disk, issued, reblocked>>
    BY <1>9 DEF Refuse, history
  <2>2. \A z \in Sessions : \/ on'[z] = on[z] /\ snap'[z] = snap[z] /\ phase'[z] = phase[z]
                            \/ on'[z] = NoTask /\ phase'[z] = "idle"
    BY <1>9 DEF Refuse, End, TypeOK
  <2> QED BY <2>1, <2>2 DEF RecordInv
<1>10. ASSUME NEW u \in Tasks, BlockBegin(s, u) PROVE RecordInv'
  <2>1. disk[u] \in Record /\ RecordOK(u, disk[u], issued[u], reblocked)
    BY DEF TypeOK, RecordInv
  <2>2. PICK needs \in Needs : /\ Upsert(u, BlockedFor(disk[u], needs))
                               /\ Begin(s, u, BlockedFor(disk[u], needs), "handoff")
    BY <1>10 DEF BlockBegin
  <2> DEFINE x == BlockedFor(disk[u], needs)
  <2>3. /\ disk[u].state # "done" /\ UNCHANGED issued
        /\ reblocked' = IF disk[u].state = "blocked" THEN reblocked \cup {u} ELSE reblocked
    BY <1>10 DEF BlockBegin
  <2>4. Grows /\ RecordOK(u, x, issued'[u], reblocked')
    BY <2>1, <2>3, BlockedForKeeps DEF RecordOK, Grows
  <2>5. disk' = [disk EXCEPT ![u] = x]
    BY <2>2 DEF Upsert
  <2>6. Begin(s, u, x, "handoff")
    BY <2>2
  <2> HIDE DEF x
  <2>7. \A z \in Sessions : \/ on'[z] = on[z] /\ snap'[z] = snap[z] /\ phase'[z] = phase[z]
                            \/ on'[z] = u /\ snap'[z] = x /\ phase'[z] # "done"
    BY <2>6 DEF Begin, TypeOK
  <2> QED BY <2>4, <2>5, <2>7, WriteKeeps
<1>11. CASE HandoffEnd(s)
  <2>1. phase[s] # "idle" /\ Grows /\ UNCHANGED <<issued, reblocked>>
    BY <1>11 DEF HandoffEnd, history, Grows
  <2>2. RecordOK(t, r, issued'[t], reblocked')
    BY <1>0, <2>1
  <2> QED BY <1>1, <1>11, <2>1, <2>2 DEF HandoffEnd
<1> QED
  BY <1>2, <1>3, <1>4, <1>5, <1>6, <1>7, <1>8, <1>9, <1>10, <1>11 DEF LongHandler

\* No interleaving of handlers breaks the invariant of a record.
THEOREM RecordInvariance == LifecycleSpec => [](TypeOK /\ SessionsConsistent /\ RecordInv)
<1> DEFINE IInv == TypeOK /\ SessionsConsistent /\ RecordInv
<1>1. Init => IInv
  <2>1. ASSUME Init PROVE RecordInv
    BY <2>1 DEF Init, RecordInv, RecordOK, Marked, Resumable, HasCriteria,
       ReopenedHasDirective, Created
  <2> QED BY <2>1, InitTyped DEF Init, SessionsConsistent
<1>2. IInv /\ [Next]_vars => IInv'
  <2> SUFFICES ASSUME IInv, [Next]_vars PROVE IInv'
    OBVIOUS
  <2>1. TypeOK'
    <3>1. CASE UNCHANGED vars
      BY <3>1 DEF TypeOK, vars
    <3> QED
      BY <3>1, ShortHandlerTyped, LongHandlerTyped DEF Next, SessionsConsistent
  <2>2. RecordInv'
    <3>1. CASE UNCHANGED vars
      BY <3>1 DEF RecordInv, vars
    <3> QED
      BY <3>1, ShortHandlerKeeps, LongHandlerKeeps DEF Next
  <2> QED
    BY <2>1, <2>2, StepConsistent
<1> QED
  BY <1>1, <1>2, PTL DEF LifecycleSpec

\* A re-opened task always has a correction waiting and is not done, in tasks.json
\* and in the copy any handler holds, whatever overlaps.
THEOREM ReopenMarkerIsSound == LifecycleSpec => []ReopenedAwaitsRework
<1>1. TypeOK /\ SessionsConsistent /\ RecordInv => ReopenedAwaitsRework
  BY DEF SessionsConsistent, RecordInv, RecordOK, Marked, ReopenedAwaitsRework,
     ReopenedHasDirective, Created
<1> QED
  BY <1>1, RecordInvariance, PTL

\* GATE P1 for every task that was not blocked twice, whatever overlaps.
THEOREM CriteriaGateHolds == LifecycleSpec => []CriteriaUnlessReblocked
<1>1. RecordInv => CriteriaUnlessReblocked
  BY DEF RecordInv, RecordOK, Resumable, CriteriaUnlessReblocked
<1> QED
  BY <1>1, RecordInvariance, PTL

\* A task blocked once says what it needs and where to resume.
THEOREM BlockedTasksCanResume == LifecycleSpec => []BlockedCanResume
<1>1. RecordInv => BlockedCanResume
  BY DEF RecordInv, RecordOK, Resumable, BlockedCanResume
<1> QED
  BY <1>1, RecordInvariance, PTL

-----------------------------------------------------------------------------
(* What holds when nothing overlaps a handler but what its agent does: an  *)
(* executor raises forks, and test files may change under any handler.     *)

OnlyAgentOverlaps == Overlaps \subseteq {<<"raise", "executor">>} \cup ({"edit-test"} \X Phases)

\* The copy a handler holds has every correction as it was issued; the copy of
\* chalk work may miss the forks its executor has raised since, while it runs.
CorrectionsInv ==
    /\ \A t \in Tasks : disk[t].note = issued[t]
    /\ \A s, z \in Sessions : on[s] = on[z] /\ on[s] # NoTask => s = z
    /\ \A s \in Sessions : on[s] # NoTask =>
          \/ snap[s].note = issued[on[s]]
          \/ /\ phase[s] = "executor"
             /\ \A n \in Notes : \/ snap[s].note[n] = issued[on[s]][n]
                                 \/ issued[on[s]][n] = "raised"

LEMMA NothingOverlaps ==
    ASSUME OnlyAgentOverlaps, NEW c \in AllCommands \ {"edit-test"}, NEW t \in Tasks,
           May(c, t), NEW s \in Sessions, on[s] = t
    PROVE  c = "raise" /\ phase[s] = "executor"
BY DEF OnlyAgentOverlaps, May

LEMMA ShortKeepsCorrections ==
    ASSUME OnlyAgentOverlaps, TypeOK, RecordInv, CorrectionsInv,
           NEW t \in Tasks, ShortHandler(t)
    PROVE  CorrectionsInv'
<1> DEFINE r == disk[t]
<1>0. /\ r \in Record /\ r.note \in [Notes -> NoteStatus] /\ r.note = issued[t]
      /\ Marked(r) /\ file[t] \in Revisions /\ (r.state = "blocked" \/ r.state # "blocked")
  BY DEF TypeOK, CorrectionsInv, RecordInv, RecordOK, Record
<1>1. ASSUME NEW x, disk' = [disk EXCEPT ![t] = x], x.note = issued[t],
             UNCHANGED <<issued, phase, on, snap>>
      PROVE  CorrectionsInv'
  BY <1>1 DEF CorrectionsInv, TypeOK
<1>2. ASSUME NEW x, NEW n \in Notes, NEW v, disk' = [disk EXCEPT ![t] = x],
             x.note = [issued[t] EXCEPT ![n] = v],
             issued' = [issued EXCEPT ![t][n] = v],
             \A s \in Sessions : on[s] # t,
             UNCHANGED <<phase, on, snap>>
      PROVE  CorrectionsInv'
  BY <1>2 DEF CorrectionsInv, TypeOK
<1> HIDE DEF r
<1>3. CASE Spec(t)
  <2>1. PICK c \in BOOLEAN, l \in SUBSET Revisions : Upsert(t, Specced(r, c, l))
    BY <1>3, SpecWrites DEF r
  <2>2. Specced(r, c, l).note = r.note
    BY <1>0, SpeccedKeeps
  <2>3. UNCHANGED <<issued, phase, on, snap>>
    BY <1>3, SpecWrites DEF sessions, history
  <2> QED BY <1>0, <1>1, <2>1, <2>2, <2>3 DEF Upsert
<1>4. CASE Start(t)
  BY <1>0, <1>1, <1>4, SimpleOpsKeep DEF Start, Upsert, sessions, history, r
<1>6. CASE Unblock(t)
  BY <1>0, <1>1, <1>6, RestoredKeeps DEF Unblock, Unblocked, Upsert, sessions, history, r
<1>7. CASE EditTest(t)
  BY <1>7 DEF EditTest, sessions, history, CorrectionsInv
<1>8. CASE AmendSpec(t)
  BY <1>0, <1>1, <1>8, AmendedKeeps DEF AmendSpec, Upsert, sessions, history, r
<1>9. CASE Raise(t)
  <2>1. PICK n \in Notes : /\ issued[t][n] = "none" /\ Upsert(t, Raised(r, n))
                           /\ Issue(t, n, "raised")
    BY <1>9 DEF Raise, r
  <2>2. Raised(r, n).note = [issued[t] EXCEPT ![n] = "raised"]
    <3>1. Raised(r, n).note = [r.note EXCEPT ![n] = "raised"]
      BY <1>0, NoteOpsKeep
    <3> QED
      BY <1>0, <3>1
  <2>3. ASSUME NEW s \in Sessions, on[s] = t
        PROVE  /\ phase[s] = "executor"
               /\ \A m \in Notes : \/ snap[s].note[m] = issued'[t][m]
                                   \/ issued'[t][m] = "raised"
    <3>1. May("raise", t)
      BY <1>9 DEF Raise
    <3>2. phase[s] = "executor"
      BY <2>3, <3>1, NothingOverlaps DEF AllCommands
    <3>3. on[s] # NoTask
      BY <2>3, LifecycleAssumption
    <3>4. \A m \in Notes : snap[s].note[m] = issued[t][m] \/ issued[t][m] = "raised"
      BY <2>3, <3>3 DEF CorrectionsInv
    <3>5. issued'[t] = [issued[t] EXCEPT ![n] = "raised"]
      BY <2>1 DEF Issue, TypeOK
    <3>6. issued[t] \in [Notes -> NoteStatus]
      BY DEF TypeOK
    <3> QED BY <2>1, <3>2, <3>4, <3>5, <3>6
  <2>4. UNCHANGED <<on, phase, snap>>
    BY <1>9 DEF Raise, sessions
  <2>5. \A u \in Tasks : u # t => issued'[u] = issued[u] /\ disk'[u] = disk[u]
    BY <2>1 DEF Issue, Upsert, TypeOK
  <2>6. disk'[t].note = issued'[t]
    BY <2>1, <2>2 DEF Issue, Upsert, TypeOK
  <2>7. \A s \in Sessions : on[s] \in Tasks \cup {NoTask}
    BY DEF TypeOK
  <2> QED BY <2>3, <2>4, <2>5, <2>6, <2>7 DEF CorrectionsInv
<1>10. CASE Answer(t)
  <2>1. PICK n \in OpenRaises(r) : Upsert(t, Answered(r, n)) /\ Issue(t, n, "directed")
    BY <1>10 DEF Answer, r
  <2>2. n \in Notes /\ Answered(r, n).note = [issued[t] EXCEPT ![n] = "directed"]
    BY <1>0, <2>1, NoteOpsKeep DEF OpenRaises
  <2>3. \A s \in Sessions : on[s] # t
    BY <1>10, NothingOverlaps DEF Answer, AllCommands
  <2> QED BY <1>2, <1>10, <2>1, <2>2, <2>3 DEF Answer, Upsert, Issue, sessions
<1>11. CASE Accept(t)
  BY <1>0, <1>1, <1>11, SimpleOpsKeep DEF Accept, Upsert, sessions, history, r
<1>12. CASE Redirect(t)
  <2>1. PICK n \in Notes : Upsert(t, Redirected(r, n)) /\ Issue(t, n, "directed")
    BY <1>12 DEF Redirect, r
  <2>2. Redirected(r, n).note = [issued[t] EXCEPT ![n] = "directed"]
    <3>1. Redirected(r, n).note = [r.note EXCEPT ![n] = "directed"]
      BY <1>0, NoteOpsKeep
    <3> QED
      BY <1>0, <3>1
  <2>3. \A s \in Sessions : on[s] # t
    BY <1>12, NothingOverlaps DEF Redirect, AllCommands
  <2> QED BY <1>2, <1>12, <2>1, <2>2, <2>3 DEF Redirect, Upsert, Issue, sessions
<1>13. CASE Align(t)
  BY <1>0, <1>1, <1>13, SimpleOpsKeep DEF Align, Upsert, sessions, history, r
<1> QED
  BY <1>3, <1>4, <1>6, <1>7, <1>8, <1>9, <1>10, <1>11, <1>12, <1>13 DEF ShortHandler

LEMMA LongKeepsCorrections ==
    ASSUME OnlyAgentOverlaps, TypeOK, SessionsConsistent, RecordInv, CorrectionsInv,
           NEW s \in Sessions, LongHandler(s)
    PROVE  CorrectionsInv'
<1> DEFINE t == on[s]
           r == snap[s]
<1>0. ASSUME phase[s] # "idle"
      PROVE  /\ t \in Tasks /\ t # NoTask /\ r \in Record /\ r.note \in [Notes -> NoteStatus]
             /\ issued[t] \in [Notes -> NoteStatus]
             /\ phase[s] # "executor" => r.note = issued[t]
             /\ Marked(r)
             /\ \A z \in Sessions : z # s => on[z] # t
  <2>1. t \in Tasks /\ t # NoTask
    BY <1>0 DEF TypeOK, SessionsConsistent
  <2>2. r \in Record /\ r.note \in [Notes -> NoteStatus]
    BY DEF TypeOK, Record
  <2> QED BY <2>1, <2>2 DEF TypeOK, CorrectionsInv, RecordInv, RecordOK
<1>1. ASSUME NEW x, NEW i, phase[s] # "idle", End(s), Upsert(t, x),
             issued' = [issued EXCEPT ![t] = i], x.note = i
      PROVE  CorrectionsInv'
  <2>1. \A z \in Sessions :
           \/ z # s /\ on'[z] = on[z] /\ snap'[z] = snap[z] /\ phase'[z] = phase[z]
              /\ on[z] # t
           \/ on'[z] = NoTask
    BY <1>0, <1>1 DEF End, TypeOK
  <2>2. \A u \in Tasks : u # t => issued'[u] = issued[u] /\ disk'[u] = disk[u]
    BY <1>1 DEF Upsert, TypeOK
  <2>3. t \in Tasks /\ disk'[t].note = i /\ issued'[t] = i
    BY <1>0, <1>1 DEF Upsert, TypeOK
  <2>4. \A z \in Sessions : on[z] \in Tasks \cup {NoTask}
    BY DEF TypeOK
  <2> QED BY <2>1, <2>2, <2>3, <2>4 DEF CorrectionsInv
<1>2. ASSUME NEW u \in Tasks, NEW x, NEW f, NEW c \in LongCommands, May(c, u),
             Begin(s, u, x, f), disk' = disk \/ disk' = [disk EXCEPT ![u] = x],
             x.note = disk[u].note, UNCHANGED issued
      PROVE  CorrectionsInv'
  <2>1. \A z \in Sessions : on[z] # u
    BY <1>2, NothingOverlaps DEF LongCommands, AllCommands
  <2>2. \A z \in Sessions :
           \/ z # s /\ on'[z] = on[z] /\ snap'[z] = snap[z] /\ phase'[z] = phase[z]
           \/ z = s /\ on'[z] = u /\ snap'[z] = x
    BY <1>2 DEF Begin, TypeOK
  <2>3. \A w \in Tasks : disk'[w].note = issued'[w]
    BY <1>2 DEF CorrectionsInv, TypeOK
  <2>4. x.note = issued'[u]
    BY <1>2 DEF CorrectionsInv
  <2> QED BY <1>2, <2>1, <2>2, <2>3, <2>4 DEF CorrectionsInv
<1>3. ASSUME NEW u \in Tasks, WorkAlreadyVerified(s, u) PROVE CorrectionsInv'
  BY <1>3 DEF WorkAlreadyVerified, vars, sessions, CorrectionsInv
<1>4. ASSUME NEW u \in Tasks, WorkBegin(s, u) PROVE CorrectionsInv'
  <2>1. disk[u] \in Record
    BY DEF TypeOK
  <2>2. PickedUp(disk[u]).note = disk[u].note
    BY <2>1, SimpleOpsKeep
  <2> QED BY <1>2, <1>4, <2>2 DEF WorkBegin, Upsert, history, LongCommands
<1>5. ASSUME NEW u \in Tasks, DoneBegin(s, u) PROVE CorrectionsInv'
  BY <1>2, <1>5 DEF DoneBegin, history, LongCommands
<1>6. ASSUME NEW u \in Tasks, ReviewBegin(s, u) \/ HandoffBegin(s, u) PROVE CorrectionsInv'
  BY <1>2, <1>6 DEF ReviewBegin, HandoffBegin, history, LongCommands
<1>7. CASE WorkExecuted(s)
  <2>1. phase[s] = "executor" /\ OpenRaises(disk[t]) = {} /\ UNCHANGED <<disk, on, snap, issued>>
    BY <1>7 DEF WorkExecuted, history
  <2>2. \A n \in Notes : issued[t][n] # "raised"
    BY <1>0, <2>1 DEF OpenRaises, CorrectionsInv
  <2>3. r.note = issued[t]
    <3>1. \A n \in Notes : r.note[n] = issued[t][n]
      BY <1>0, <2>1, <2>2 DEF CorrectionsInv
    <3> QED BY <1>0, <2>1, <3>1
  <2>4. \A z \in Sessions : z # s => phase'[z] = phase[z]
    BY <1>7 DEF WorkExecuted, TypeOK
  <2> QED BY <2>1, <2>3, <2>4 DEF CorrectionsInv
<1>8. CASE WorkVerified(s)
  <2>1. phase[s] = "checks" /\ End(s) /\ Upsert(t, Verified(r)) /\ UNCHANGED issued
    BY <1>8 DEF WorkVerified, history
  <2>2. Verified(r).note = issued[t] /\ issued' = [issued EXCEPT ![t] = issued[t]]
    BY <1>0, <2>1, SimpleOpsKeep DEF TypeOK
  <2> QED BY <1>1, <2>1, <2>2
<1>9. CASE DoneEnd(s)
  <2>1. phase[s] = "done" /\ End(s) /\ Upsert(t, Completed(r)) /\ ResolvesIssued(t, r)
    BY <1>9 DEF DoneEnd
  <2> DEFINE i == [n \in Notes |->
                      IF n \in PendingDirectives(r) THEN "resolved" ELSE issued[t][n]]
  <2>2. issued' = [issued EXCEPT ![t] = i]
    BY <1>0, <2>1 DEF ResolvesIssued, TypeOK
  <2>3. Completed(r).note = i
    <3>1. Completed(r) \in Record
      BY <1>0, <2>1, CompletedIsRecord
    <3>2. Completed(r).note \in [Notes -> NoteStatus]
      BY <3>1 DEF Record
    <3>3. r.state = "in-progress"
      BY <2>1 DEF RecordInv
    <3>4. \A n \in Notes : Completed(r).note[n] = i[n]
      BY <1>0, <2>1, <3>3, CompletedKeeps DEF PendingDirectives
    <3> QED BY <3>2, <3>4
  <2> HIDE DEF i
  <2> QED BY <1>1, <2>1, <2>2, <2>3
<1>10. CASE ReviewEnd(s)
  <2>1. PICK v \in {"pass", "block"}, c \in {"none", "open"} : Upsert(t, Reviewed(r, v, c))
    BY <1>10 DEF ReviewEnd
  <2>2. phase[s] = "review" /\ End(s) /\ UNCHANGED issued
    BY <1>10 DEF ReviewEnd
  <2>3. Reviewed(r, v, c).note = issued[t] /\ issued' = [issued EXCEPT ![t] = issued[t]]
    BY <1>0, <2>2, ReviewedKeeps DEF Verdicts, Calls, TypeOK
  <2> QED BY <1>1, <2>1, <2>2, <2>3
<1>11. CASE Refuse(s)
  <2>1. UNCHANGED <<disk, issued>>
    BY <1>11 DEF Refuse, history
  <2>2. \A z \in Sessions : \/ on'[z] = on[z] /\ snap'[z] = snap[z] /\ phase'[z] = phase[z]
                            \/ on'[z] = NoTask
    BY <1>11 DEF Refuse, End, TypeOK
  <2> QED BY <2>1, <2>2 DEF CorrectionsInv
<1>12. ASSUME NEW u \in Tasks, BlockBegin(s, u) PROVE CorrectionsInv'
  <2>1. PICK needs \in Needs : /\ Upsert(u, BlockedFor(disk[u], needs))
                               /\ Begin(s, u, BlockedFor(disk[u], needs), "handoff")
    BY <1>12 DEF BlockBegin
  <2>2. BlockedFor(disk[u], needs).note = disk[u].note
    BY DEF BlockedFor, Record, TypeOK
  <2>3. May("block", u) /\ UNCHANGED issued
    BY <1>12 DEF BlockBegin
  <2> QED BY <1>2, <2>1, <2>2, <2>3 DEF Upsert, LongCommands
<1>13. CASE HandoffEnd(s)
  <2>1. phase[s] = "handoff" /\ End(s) /\ Upsert(t, r) /\ UNCHANGED issued
    BY <1>13 DEF HandoffEnd, history
  <2>2. r.note = issued[t] /\ issued' = [issued EXCEPT ![t] = issued[t]]
    BY <1>0, <2>1 DEF TypeOK
  <2> QED BY <1>1, <2>1, <2>2
<1> QED
  BY <1>3, <1>4, <1>5, <1>6, <1>7, <1>8, <1>9, <1>10, <1>11, <1>12, <1>13 DEF LongHandler

\* No correction of the director is lost as long as nothing but the executor's own
\* raise is issued on a task during its work, done, review, block or handoff.
THEOREM CorrectionsAreDurable ==
    ASSUME OnlyAgentOverlaps
    PROVE  LifecycleSpec => []CorrectionsSurvive
<1> DEFINE IInv == TypeOK /\ SessionsConsistent /\ RecordInv
<1>1. Init => CorrectionsInv
  BY DEF Init, CorrectionsInv
<1>2. IInv /\ CorrectionsInv /\ [Next]_vars => CorrectionsInv'
  <2> SUFFICES ASSUME IInv, CorrectionsInv, [Next]_vars PROVE CorrectionsInv'
    OBVIOUS
  <2>1. CASE UNCHANGED vars
    BY <2>1 DEF CorrectionsInv, vars
  <2> QED
    BY <2>1, ShortKeepsCorrections, LongKeepsCorrections DEF Next
<1>3. CorrectionsInv => CorrectionsSurvive
  BY DEF CorrectionsInv, CorrectionsSurvive
<1> QED
  BY <1>1, <1>2, <1>3, RecordInvariance, PTL DEF LifecycleSpec

-----------------------------------------------------------------------------
(* The gates: what chalk work verifies and what chalk done completes, when *)
(* nothing but an executor's raise is issued on a task during a long       *)
(* handler on it; its test file may change at any time.                    *)

\* What the gates decide on: all of a record that a raise leaves alone.
Core(r) == <<r.state, r.from, r.tests, r.verdict, r.verified>>

\* A passing verdict stands only while the locks it was given under (j) stay: chalk
\* amend-spec, the one command that moves a lock, takes the verdict with it.
Approved(r, j) == r.verdict = "pass" => j \subseteq r.tests

\* The inductive invariant.  A passing verdict stands on its locks; and the copy a
\* session holds decides as the record on disk would, in particular with no fork
\* open during the checks.
ApprovalInv ==
    /\ \A t \in Tasks : Approved(disk[t], judged[t])
    /\ \A s \in Sessions : on[s] # NoTask =>
          /\ Core(snap[s]) = Core(disk[on[s]])
          /\ phase[s] = "checks" => \A n \in Notes : issued[on[s]][n] # "raised"

GateInv == TypeOK /\ SessionsConsistent /\ RecordInv /\ CorrectionsInv /\ ApprovalInv

-----------------------------------------------------------------------------
(* What the operators do to the core of a record.                          *)

LEMMA LockAndVerdictKept ==
    ASSUME NEW r \in Record
    PROVE  /\ \A x \in {Started(r), PickedUp(r), Unblocked(r),
                        Accepted(r), Aligned(r), Verified(r), Completed(r)} :
                 x.tests = r.tests /\ x.verdict = r.verdict
           /\ \A needs \in Needs :
                 BlockedFor(r, needs).tests = r.tests /\ BlockedFor(r, needs).verdict = r.verdict
           /\ \A n \in Notes :
                 /\ Core(Raised(r, n)) = Core(r)
                 /\ Answered(r, n).tests = r.tests /\ Answered(r, n).verdict = r.verdict
                 /\ Redirected(r, n).tests = r.tests /\ Redirected(r, n).verdict = r.verdict
<1>1. ASSUME NEW d \in States
      PROVE  Restored(r, d).tests = r.tests /\ Restored(r, d).verdict = r.verdict
  BY DEF Restored, Record
<1>2. /\ Started(r).tests = r.tests /\ Started(r).verdict = r.verdict
      /\ PickedUp(r).tests = r.tests /\ PickedUp(r).verdict = r.verdict
      /\ Accepted(r).tests = r.tests /\ Accepted(r).verdict = r.verdict
      /\ Aligned(r).tests = r.tests /\ Aligned(r).verdict = r.verdict
      /\ Verified(r).tests = r.tests /\ Verified(r).verdict = r.verdict
  BY DEF Started, PickedUp, Accepted, Aligned, Verified, Record
<1>3. Unblocked(r).tests = r.tests /\ Unblocked(r).verdict = r.verdict
  BY <1>1 DEF Unblocked, States
<1>4. Completed(r).tests = r.tests /\ Completed(r).verdict = r.verdict
  BY DEF Completed, ResolveDirectives, Record
<1>5. ASSUME NEW needs \in Needs
      PROVE  BlockedFor(r, needs).tests = r.tests /\ BlockedFor(r, needs).verdict = r.verdict
  BY DEF BlockedFor, Record
<1>6. ASSUME NEW n \in Notes
      PROVE  /\ Core(Raised(r, n)) = Core(r)
             /\ Redirected(r, n).tests = r.tests /\ Redirected(r, n).verdict = r.verdict
  BY DEF Raised, Redirected, Core, Record
<1>7. ASSUME NEW n \in Notes
      PROVE  Answered(r, n).tests = r.tests /\ Answered(r, n).verdict = r.verdict
  <2> DEFINE s == [r EXCEPT !.note[n] = "directed"]
  <2>1. s.tests = r.tests /\ s.verdict = r.verdict /\ Restored(s, "in-progress").tests = s.tests
        /\ Restored(s, "in-progress").verdict = s.verdict
    BY DEF Record, Restored
  <2> QED BY <2>1 DEF Answered
<1> QED
  BY <1>2, <1>3, <1>4, <1>5, <1>6, <1>7

LEMMA ReviewedDecides ==
    ASSUME NEW r \in Record, NEW v \in Verdicts, NEW c \in Calls
    PROVE  Reviewed(r, v, c).tests = r.tests /\ Reviewed(r, v, c).verdict = v
<1> DEFINE s == [r EXCEPT !.verdict = v, !.call = c]
<1>1. /\ s.tests = r.tests /\ s.verdict = v
      /\ Restored(s, "in-progress").tests = s.tests /\ Restored(s, "in-progress").verdict = s.verdict
  BY DEF Restored, Record
<1> QED
  BY <1>1 DEF Reviewed, ClearReviewBlockOnPass

\* Nothing but Completed takes a record to done that is not done, or resumes as such.
LEMMA NotCompleted ==
    ASSUME NEW r \in Record, r.state # "done", r.from # "done"
    PROVE  /\ \A x \in {Started(r), PickedUp(r), Unblocked(r),
                        Accepted(r), Aligned(r), Verified(r)} : x.state # "done"
           /\ \A needs \in Needs : BlockedFor(r, needs).state # "done"
           /\ \A f \in Revisions : Amended(r, f).state # "done"
           /\ \A n \in Notes : /\ Raised(r, n).state # "done"
                               /\ Answered(r, n).state # "done"
                               /\ Redirected(r, n).state # "done"
           /\ \A v \in Verdicts, c \in Calls : Reviewed(r, v, c).state # "done"
<1>1. /\ Started(r).state # "done"
      /\ PickedUp(r).state # "done" /\ Accepted(r).state # "done"
      /\ Aligned(r).state # "done"
      /\ Verified(r).state # "done"
  BY DEF Started, PickedUp, Accepted, Aligned, Verified, Record
<1>2. Unblocked(r).state # "done"
  BY DEF Unblocked, Restored, Record
<1>3. ASSUME NEW needs \in Needs PROVE BlockedFor(r, needs).state # "done"
  BY DEF BlockedFor, Record
<1>4. ASSUME NEW f \in Revisions PROVE Amended(r, f).state # "done"
  BY DEF Amended, Record
<1>5. ASSUME NEW n \in Notes
      PROVE  Raised(r, n).state # "done" /\ Redirected(r, n).state # "done"
  BY DEF Raised, Redirected, Record
<1>6. ASSUME NEW n \in Notes PROVE Answered(r, n).state # "done"
  <2> DEFINE s == [r EXCEPT !.note[n] = "directed"]
  <2>1. s.state # "done" /\ Restored(s, "in-progress").state # "done"
    BY DEF Restored, Record
  <2> QED BY <2>1 DEF Answered
<1>7. ASSUME NEW v \in Verdicts, NEW c \in Calls PROVE Reviewed(r, v, c).state # "done"
  <2> DEFINE s == [r EXCEPT !.verdict = v, !.call = c]
  <2>1. s.state # "done" /\ Restored(s, "in-progress").state # "done"
    BY DEF Restored, Record
  <2> QED BY <2>1 DEF Reviewed, ClearReviewBlockOnPass
<1> QED
  BY <1>1, <1>2, <1>3, <1>4, <1>5, <1>6, <1>7

\* A handler other than chalk work does not mark a record verified.
LEMMA NotVerified ==
    ASSUME NEW r \in Record
    PROVE  /\ \A x \in {Started(r), PickedUp(r), Unblocked(r),
                        Accepted(r), Aligned(r), Completed(r)} : x.verified = r.verified
           /\ \A needs \in Needs : BlockedFor(r, needs).verified = r.verified
           /\ \A f \in Revisions : Amended(r, f).verified = r.verified
           /\ \A n \in Notes : /\ Raised(r, n).verified = r.verified
                               /\ Answered(r, n).verified = r.verified
                               /\ Redirected(r, n).verified = r.verified
           /\ \A v \in Verdicts, c \in Calls : Reviewed(r, v, c).verified = r.verified
<1>1. /\ Started(r).verified = r.verified
      /\ PickedUp(r).verified = r.verified /\ Accepted(r).verified = r.verified
      /\ Aligned(r).verified = r.verified /\ Completed(r).verified = r.verified
  BY DEF Started, PickedUp, Accepted, Aligned, Completed, ResolveDirectives, Record
<1>2. Unblocked(r).verified = r.verified
  BY DEF Unblocked, Restored, Record
<1>3. ASSUME NEW needs \in Needs PROVE BlockedFor(r, needs).verified = r.verified
  BY DEF BlockedFor, Record
<1>4. ASSUME NEW f \in Revisions PROVE Amended(r, f).verified = r.verified
  BY DEF Amended, Record
<1>5. ASSUME NEW n \in Notes
      PROVE  Raised(r, n).verified = r.verified /\ Redirected(r, n).verified = r.verified
  BY DEF Raised, Redirected, Record
<1>6. ASSUME NEW n \in Notes PROVE Answered(r, n).verified = r.verified
  <2> DEFINE s == [r EXCEPT !.note[n] = "directed"]
  <2>1. s.verified = r.verified /\ Restored(s, "in-progress").verified = s.verified
    BY DEF Restored, Record
  <2> QED BY <2>1 DEF Answered
<1>7. ASSUME NEW v \in Verdicts, NEW c \in Calls
      PROVE  Reviewed(r, v, c).verified = r.verified
  <2> DEFINE s == [r EXCEPT !.verdict = v, !.call = c]
  <2>1. s.verified = r.verified /\ Restored(s, "in-progress").verified = s.verified
    BY DEF Restored, Record
  <2> QED BY <2>1 DEF Reviewed, ClearReviewBlockOnPass
<1> QED
  BY <1>1, <1>2, <1>3, <1>4, <1>5, <1>6, <1>7

-----------------------------------------------------------------------------
(* The invariant is inductive.                                             *)

LEMMA ShortKeepsApproval ==
    ASSUME OnlyAgentOverlaps, GateInv, NEW t \in Tasks, ShortHandler(t)
    PROVE  ApprovalInv'
<1> DEFINE r == disk[t]
           Undisturbed == \A s \in Sessions : on[s] # t
<1>0. r \in Record /\ file[t] \in Revisions /\ Approved(r, judged[t])
  BY DEF GateInv, TypeOK, ApprovalInv
<1>1. ASSUME NEW x, Upsert(t, x), Approved(x, judged[t]),
             Undisturbed, UNCHANGED <<judged, phase, on, snap>>,
             \A u \in Tasks : u # t => issued'[u] = issued[u]
      PROVE  ApprovalInv'
  <2>1. \A u \in Tasks : disk'[u] = IF u = t THEN x ELSE disk[u]
    BY <1>1 DEF Upsert, GateInv, TypeOK
  <2>2. \A s \in Sessions : on[s] \in Tasks \cup {NoTask}
    BY DEF GateInv, TypeOK
  <2> QED BY <1>1, <2>1, <2>2 DEF GateInv, ApprovalInv
<1>2. ASSUME NEW c \in AllCommands \ {"raise", "edit-test"}, May(c, t) PROVE Undisturbed
  BY <1>2, NothingOverlaps
<1>3. ASSUME NEW n \in Notes, NEW v, Issue(t, n, v)
      PROVE  \A u \in Tasks : u # t => issued'[u] = issued[u]
  BY <1>3 DEF Issue, GateInv, TypeOK
<1>4. ASSUME NEW x, r.tests \subseteq x.tests, x.verdict = r.verdict
      PROVE  Approved(x, judged[t])
  BY <1>0, <1>4 DEF Approved
<1> HIDE DEF r, Undisturbed
<1>5. CASE Spec(t)
  <2>1. PICK c \in BOOLEAN, l \in SUBSET Revisions : Upsert(t, Specced(r, c, l))
    BY <1>5, SpecWrites DEF GateInv, r
  <2>2. Undisturbed /\ UNCHANGED <<sessions, history>>
    BY <1>2, <1>5, SpecWrites DEF GateInv, AllCommands
  <2>3. Approved(Specced(r, c, l), judged[t])
    BY <1>0, <1>4, SpeccedKeeps
  <2> QED BY <1>1, <2>1, <2>2, <2>3 DEF sessions, history
<1>6. CASE Start(t)
  <2>1. Undisturbed /\ Upsert(t, Started(r)) /\ UNCHANGED <<file, sessions, history>>
    BY <1>2, <1>6 DEF Start, AllCommands, r
  <2> QED BY <1>0, <1>1, <1>4, <2>1, LockAndVerdictKept DEF sessions, history
<1>8. CASE Unblock(t)
  <2>1. Undisturbed /\ Upsert(t, Unblocked(r)) /\ UNCHANGED <<file, sessions, history>>
    BY <1>2, <1>8 DEF Unblock, AllCommands, r
  <2> QED BY <1>0, <1>1, <1>4, <2>1, LockAndVerdictKept DEF sessions, history
<1>9. CASE EditTest(t)
  BY <1>9 DEF EditTest, sessions, history, GateInv, ApprovalInv
<1>10. CASE AmendSpec(t)
  <2>1. Undisturbed /\ Upsert(t, Amended(r, file[t])) /\ UNCHANGED <<file, sessions, history>>
    BY <1>2, <1>10 DEF AmendSpec, AllCommands, r
  <2>2. Amended(r, file[t]).verdict # "pass"
    BY <1>0 DEF Amended, Record
  <2> QED BY <1>1, <2>1, <2>2 DEF sessions, history, Approved
<1>11. CASE Raise(t)
  <2>1. PICK n \in Notes : Upsert(t, Raised(r, n)) /\ Issue(t, n, "raised")
    BY <1>11 DEF Raise, r
  <2>2. UNCHANGED <<judged, phase, on, snap>> /\ May("raise", t)
    BY <1>11 DEF Raise, sessions
  <2>3. Core(Raised(r, n)) = Core(r)
    BY <1>0, <2>1, LockAndVerdictKept
  <2>4. \A u \in Tasks : Core(disk'[u]) = Core(disk[u])
    BY <2>1, <2>3 DEF Upsert, GateInv, TypeOK, r
  <2>5. \A u \in Tasks : disk'[u].tests = disk[u].tests /\ disk'[u].verdict = disk[u].verdict
    BY <2>4 DEF Core
  <2>6. \A s \in Sessions : on[s] = t => phase[s] = "executor"
    BY <2>2, NothingOverlaps DEF AllCommands
  <2>7. \A s \in Sessions : on[s] \in Tasks \cup {NoTask}
    BY DEF GateInv, TypeOK
  <2>8. \A u \in Tasks : u # t => issued'[u] = issued[u]
    BY <1>3, <2>1
  <2>9. (\A u \in Tasks : Approved(disk[u], judged[u]))'
    BY <2>2, <2>5 DEF GateInv, ApprovalInv, Approved
  <2> QED BY <2>2, <2>4, <2>6, <2>7, <2>8, <2>9 DEF GateInv, ApprovalInv
<1>12. CASE Answer(t)
  <2>1. PICK n \in OpenRaises(r) : Upsert(t, Answered(r, n)) /\ Issue(t, n, "directed")
    BY <1>12 DEF Answer, r
  <2>2. n \in Notes /\ Undisturbed /\ UNCHANGED <<file, sessions, judged>>
    BY <1>2, <1>12, <2>1 DEF Answer, AllCommands, OpenRaises
  <2> QED BY <1>0, <1>1, <1>3, <1>4, <2>1, <2>2, LockAndVerdictKept DEF sessions
<1>13. CASE Accept(t)
  <2>1. Undisturbed /\ Upsert(t, Accepted(r)) /\ UNCHANGED <<file, sessions, history>>
    BY <1>2, <1>13 DEF Accept, AllCommands, r
  <2> QED BY <1>0, <1>1, <1>4, <2>1, LockAndVerdictKept DEF sessions, history
<1>14. CASE Redirect(t)
  <2>1. PICK n \in Notes : Upsert(t, Redirected(r, n)) /\ Issue(t, n, "directed")
    BY <1>14 DEF Redirect, r
  <2>2. Undisturbed /\ UNCHANGED <<file, sessions, judged>>
    BY <1>2, <1>14 DEF Redirect, AllCommands
  <2> QED BY <1>0, <1>1, <1>3, <1>4, <2>1, <2>2, LockAndVerdictKept DEF sessions
<1>15. CASE Align(t)
  <2>1. Undisturbed /\ Upsert(t, Aligned(r)) /\ UNCHANGED <<file, sessions, history>>
    BY <1>2, <1>15 DEF Align, AllCommands, r
  <2> QED BY <1>0, <1>1, <1>4, <2>1, LockAndVerdictKept DEF sessions, history
<1> QED
  BY <1>5, <1>6, <1>8, <1>9, <1>10, <1>11, <1>12, <1>13, <1>14, <1>15
  DEF ShortHandler

LEMMA LongKeepsApproval ==
    ASSUME OnlyAgentOverlaps, GateInv, NEW s \in Sessions, LongHandler(s)
    PROVE  ApprovalInv'
<1> DEFINE t == on[s]
           r == snap[s]
<1>a. \A z \in Sessions : on[z] \in Tasks \cup {NoTask}
  BY DEF GateInv, TypeOK
<1>0. ASSUME phase[s] # "idle"
      PROVE  /\ t \in Tasks /\ t # NoTask /\ r \in Record
             /\ r.tests = disk[t].tests /\ r.verdict = disk[t].verdict
             /\ Approved(r, judged[t])
             /\ \A z \in Sessions : z # s => on[z] # t
  <2>1. t \in Tasks /\ t # NoTask /\ r \in Record
    BY <1>0 DEF GateInv, TypeOK, SessionsConsistent
  <2>2. Core(r) = Core(disk[t])
    BY <2>1 DEF GateInv, ApprovalInv
  <2>3. r.tests = disk[t].tests /\ r.verdict = disk[t].verdict
    BY <2>2 DEF Core
  <2>4. Approved(disk[t], judged[t])
    BY <2>1 DEF GateInv, ApprovalInv
  <2>5. \A z \in Sessions : z # s => on[z] # t
    BY <2>1 DEF GateInv, CorrectionsInv
  <2> QED BY <2>1, <2>2, <2>3, <2>4, <2>5 DEF Approved
<1>1. ASSUME NEW x, phase[s] # "idle", End(s), Upsert(t, x), Approved(x, judged'[t]),
             \A u \in Tasks : u # t => issued'[u] = issued[u] /\ judged'[u] = judged[u]
      PROVE  ApprovalInv'
  <2>1. \A z \in Sessions :
           \/ /\ on'[z] = on[z] /\ snap'[z] = snap[z] /\ phase'[z] = phase[z]
              /\ on[z] # t
           \/ on'[z] = NoTask
    BY <1>0, <1>1 DEF End, GateInv, TypeOK
  <2>2. \A u \in Tasks : disk'[u] = IF u = t THEN x ELSE disk[u]
    BY <1>1 DEF Upsert, GateInv, TypeOK
  <2>3. (\A u \in Tasks : Approved(disk[u], judged[u]))'
    BY <1>1, <2>2 DEF GateInv, ApprovalInv, Approved
  <2>4. ASSUME NEW z \in Sessions, on'[z] # NoTask
        PROVE  /\ Core(snap'[z]) = Core(disk'[on'[z]])
               /\ phase'[z] = "checks" => \A n \in Notes : issued'[on'[z]][n] # "raised"
    <3>1. /\ on'[z] = on[z] /\ snap'[z] = snap[z] /\ phase'[z] = phase[z]
          /\ on[z] # t /\ on[z] \in Tasks /\ on[z] # NoTask
      BY <1>a, <2>1, <2>4
    <3>2. disk'[on[z]] = disk[on[z]] /\ issued'[on[z]] = issued[on[z]]
      BY <1>1, <2>2, <3>1
    <3> QED BY <1>1, <3>1, <3>2 DEF GateInv, ApprovalInv
  <2> QED BY <2>3, <2>4 DEF ApprovalInv
<1>2. ASSUME NEW u \in Tasks, NEW x, NEW f \in Phases \ {"idle", "checks"},
             NEW c \in LongCommands, May(c, u), Begin(s, u, x, f),
             x.tests = disk[u].tests, x.verdict = disk[u].verdict,
             Upsert(u, x) \/ (UNCHANGED disk /\ x = disk[u]),
             UNCHANGED <<issued, judged>>
      PROVE  ApprovalInv'
  <2>1. \A z \in Sessions : on[z] # u
    BY <1>2, NothingOverlaps DEF LongCommands, AllCommands
  <2>2. \A z \in Sessions :
           \/ z # s /\ on'[z] = on[z] /\ snap'[z] = snap[z] /\ phase'[z] = phase[z]
           \/ z = s /\ on'[z] = u /\ snap'[z] = x /\ phase'[z] = f
    BY <1>2 DEF Begin, GateInv, TypeOK
  <2>3. \A w \in Tasks : disk'[w] = IF w = u THEN x ELSE disk[w]
    BY <1>2 DEF Upsert, GateInv, TypeOK
  <2>4. (\A w \in Tasks : Approved(disk[w], judged[w]))'
    BY <1>2, <2>3 DEF GateInv, ApprovalInv, Approved
  <2>5. ASSUME NEW z \in Sessions, on'[z] # NoTask
        PROVE  /\ Core(snap'[z]) = Core(disk'[on'[z]])
               /\ phase'[z] = "checks" => \A n \in Notes : issued'[on'[z]][n] # "raised"
    <3>1. CASE z = s
      BY <1>2, <2>2, <2>3, <3>1
    <3>2. CASE z # s
      <4>1. /\ on'[z] = on[z] /\ snap'[z] = snap[z] /\ phase'[z] = phase[z]
            /\ on[z] \in Tasks /\ on[z] # u /\ on[z] # NoTask
        BY <1>a, <2>1, <2>2, <2>5, <3>2
      <4>2. disk'[on[z]] = disk[on[z]]
        BY <2>3, <4>1
      <4> QED BY <1>2, <4>1, <4>2 DEF GateInv, ApprovalInv
    <3> QED BY <3>1, <3>2
  <2> QED BY <2>4, <2>5 DEF ApprovalInv
<1> HIDE DEF t, r
<1>3. ASSUME NEW u \in Tasks, WorkAlreadyVerified(s, u) PROVE ApprovalInv'
  BY <1>3 DEF WorkAlreadyVerified, vars, sessions, GateInv, ApprovalInv, Approved
<1>4. ASSUME NEW u \in Tasks, WorkBegin(s, u) PROVE ApprovalInv'
  <2>1. disk[u] \in Record
    BY DEF GateInv, TypeOK
  <2>2. PickedUp(disk[u]).tests = disk[u].tests /\ PickedUp(disk[u]).verdict = disk[u].verdict
    BY <2>1, LockAndVerdictKept
  <2> QED BY <1>2, <1>4, <2>2 DEF WorkBegin, history, LongCommands, Phases
<1>5. ASSUME NEW u \in Tasks, DoneBegin(s, u) PROVE ApprovalInv'
  BY <1>2, <1>5 DEF DoneBegin, history, LongCommands, Phases
<1>6. ASSUME NEW u \in Tasks, ReviewBegin(s, u) \/ HandoffBegin(s, u) PROVE ApprovalInv'
  BY <1>2, <1>6 DEF ReviewBegin, HandoffBegin, history, LongCommands, Phases
<1>7. CASE WorkExecuted(s)
  <2>1. /\ phase[s] = "executor" /\ OpenRaises(disk[on[s]]) = {}
        /\ UNCHANGED <<disk, on, snap, issued, judged>>
        /\ \A z \in Sessions : z # s => phase'[z] = phase[z]
    BY <1>7 DEF WorkExecuted, history, GateInv, TypeOK
  <2>2. \A n \in Notes : issued[on[s]][n] # "raised"
    BY <1>0, <2>1 DEF OpenRaises, GateInv, CorrectionsInv, t
  <2> QED BY <2>1, <2>2 DEF GateInv, ApprovalInv, Approved
<1>8. CASE WorkVerified(s)
  <2>1. /\ phase[s] = "checks" /\ End(s) /\ Upsert(t, Verified(r))
        /\ UNCHANGED <<file, issued, judged>>
    BY <1>8 DEF WorkVerified, history, t, r
  <2>2. Verified(r).tests = r.tests /\ Verified(r).verdict = r.verdict
    BY <1>0, <2>1, LockAndVerdictKept
  <2> QED BY <1>0, <1>1, <2>1, <2>2 DEF Approved
<1>9. CASE DoneEnd(s)
  <2>1. /\ phase[s] = "done" /\ End(s) /\ Upsert(t, Completed(r)) /\ ResolvesIssued(t, r)
        /\ UNCHANGED <<file, judged>>
    BY <1>9 DEF DoneEnd, t, r
  <2>2. \A u \in Tasks : u # t => issued'[u] = issued[u]
    BY <2>1 DEF ResolvesIssued, GateInv, TypeOK
  <2>3. Completed(r).tests = r.tests /\ Completed(r).verdict = r.verdict
    BY <1>0, <2>1, LockAndVerdictKept
  <2> QED BY <1>0, <1>1, <2>1, <2>2, <2>3 DEF Approved
<1>10. CASE ReviewEnd(s)
  <2>1. PICK v \in {"pass", "block"}, c \in {"none", "open"} :
           /\ Upsert(t, Reviewed(r, v, c))
           /\ judged' = IF v = "pass" THEN [judged EXCEPT ![t] = r.tests] ELSE judged
    BY <1>10 DEF ReviewEnd, t, r
  <2>2. phase[s] = "review" /\ End(s) /\ UNCHANGED <<file, issued>>
    BY <1>10 DEF ReviewEnd
  <2>3. Reviewed(r, v, c).tests = r.tests /\ Reviewed(r, v, c).verdict = v
    BY <1>0, <2>2, ReviewedDecides DEF Verdicts, Calls
  <2>4. /\ \A u \in Tasks : u # t => judged'[u] = judged[u]
        /\ v = "pass" => judged'[t] = r.tests
    BY <1>0, <2>1, <2>2 DEF GateInv, TypeOK
  <2> QED BY <1>0, <1>1, <2>1, <2>2, <2>3, <2>4 DEF Approved
<1>11. CASE Refuse(s)
  <2>1. UNCHANGED <<disk, file, issued, judged>>
    BY <1>11 DEF Refuse, history
  <2>2. \A z \in Sessions :
           \/ on'[z] = on[z] /\ snap'[z] = snap[z] /\ phase'[z] = phase[z]
           \/ on'[z] = NoTask
    BY <1>11 DEF Refuse, End, GateInv, TypeOK
  <2> QED BY <2>1, <2>2 DEF GateInv, ApprovalInv, Approved
<1>12. ASSUME NEW u \in Tasks, BlockBegin(s, u) PROVE ApprovalInv'
  <2>1. PICK needs \in Needs : /\ Upsert(u, BlockedFor(disk[u], needs))
                               /\ Begin(s, u, BlockedFor(disk[u], needs), "handoff")
    BY <1>12 DEF BlockBegin
  <2>2. disk[u] \in Record
    BY DEF GateInv, TypeOK
  <2>3. /\ BlockedFor(disk[u], needs).tests = disk[u].tests
        /\ BlockedFor(disk[u], needs).verdict = disk[u].verdict
    BY <2>2, LockAndVerdictKept
  <2>4. May("block", u) /\ UNCHANGED <<issued, judged>>
    BY <1>12 DEF BlockBegin
  <2> QED BY <1>2, <2>1, <2>3, <2>4 DEF LongCommands, Phases
<1>13. CASE HandoffEnd(s)
  <2>1. /\ phase[s] = "handoff" /\ End(s) /\ Upsert(t, r) /\ UNCHANGED <<issued, judged>>
    BY <1>13 DEF HandoffEnd, history, t, r
  <2> QED BY <1>0, <1>1, <2>1
<1> QED
  BY <1>3, <1>4, <1>5, <1>6, <1>7, <1>8, <1>9, <1>10, <1>11, <1>12, <1>13 DEF LongHandler

\* The gates' invariant holds in every state the commands reach.
THEOREM GateInvariance ==
    ASSUME OnlyAgentOverlaps
    PROVE  LifecycleSpec => []GateInv
<1>1. Init => GateInv
  <2> SUFFICES ASSUME Init PROVE GateInv
    OBVIOUS
  <2>1. ApprovalInv
    BY RecordAssumption DEF Init, ApprovalInv, Approved, Created
  <2>2. RecordInv
    BY DEF Init, RecordInv, RecordOK, Marked, Resumable, HasCriteria,
       ReopenedHasDirective, Created
  <2> QED BY <2>1, <2>2, InitTyped DEF Init, SessionsConsistent, CorrectionsInv, GateInv
<1>2. GateInv /\ [Next]_vars => GateInv'
  <2> SUFFICES ASSUME GateInv, [Next]_vars PROVE GateInv'
    OBVIOUS
  <2>1. CASE UNCHANGED vars
    BY <2>1 DEF vars, GateInv, TypeOK, SessionsConsistent, RecordInv, CorrectionsInv,
       ApprovalInv, Approved
  <2>2. ASSUME Next PROVE TypeOK' /\ RecordInv' /\ CorrectionsInv'
    BY <2>2, ShortHandlerTyped, LongHandlerTyped, ShortHandlerKeeps, LongHandlerKeeps,
       ShortKeepsCorrections, LongKeepsCorrections DEF Next, GateInv, SessionsConsistent
  <2>3. ASSUME Next PROVE ApprovalInv'
    BY <2>3, ShortKeepsApproval, LongKeepsApproval DEF Next
  <2>4. SessionsConsistent'
    BY StepConsistent DEF GateInv
  <2> QED BY <2>1, <2>2, <2>3, <2>4 DEF GateInv
<1> QED
  BY <1>1, <1>2, PTL DEF LifecycleSpec

-----------------------------------------------------------------------------
(* What the steps decide.                                                  *)

\* Of all handlers only the end of chalk work marks a task verified, and only
\* the end of chalk done completes one.
LEMMA ShortDecidesNothing ==
    ASSUME GateInv, NEW t \in Tasks, ShortHandler(t), NEW u \in Tasks
    PROVE  /\ disk'[u].verified = disk[u].verified
           /\ disk[u].state # "done" => disk'[u].state # "done"
<1> DEFINE r == disk[t]
<1>0. /\ r \in Record /\ r.from # "done" /\ file[t] \in Revisions
      /\ OpenRaises(r) \subseteq Notes
  BY DEF GateInv, TypeOK, RecordInv, RecordOK, Marked, OpenRaises
<1> DEFINE Changed(x) == disk' = disk \/ Upsert(t, x)
           Idle(x) == x.verified = r.verified /\ (r.state # "done" => x.state # "done")
<1>1. ASSUME NEW x, Changed(x), Idle(x)
      PROVE  /\ disk'[u].verified = disk[u].verified
             /\ disk[u].state # "done" => disk'[u].state # "done"
  BY <1>1 DEF Upsert, GateInv, TypeOK
<1>2. \E x : Changed(x) /\ Idle(x)
  <2> HIDE DEF r
  <2>1. \/ \E x \in {Started(r), Unblocked(r), Accepted(r), Aligned(r),
                     Amended(r, file[t])} : Upsert(t, x)
        \/ \E c \in BOOLEAN, l \in SUBSET Revisions : Upsert(t, Specced(r, c, l))
        \/ \E n \in Notes : \/ Upsert(t, Raised(r, n)) \/ Upsert(t, Answered(r, n))
                           \/ Upsert(t, Redirected(r, n))
        \/ disk' = disk
    BY <1>0, SpecWrites DEF ShortHandler, Align, Start, Unblock, EditTest, AmendSpec, Raise,
       Answer, Accept, Redirect, GateInv, r
  <2>2. ASSUME NEW x \in {Started(r), Unblocked(r), Accepted(r), Aligned(r),
                          Amended(r, file[t])}
        PROVE  Idle(x)
    BY <1>0, <2>2, NotCompleted, NotVerified
  <2>3. ASSUME NEW c \in BOOLEAN, NEW l \in SUBSET Revisions PROVE Idle(Specced(r, c, l))
    BY <1>0, SpeccedKeeps
  <2>4. ASSUME NEW n \in Notes
        PROVE  Idle(Raised(r, n)) /\ Idle(Answered(r, n)) /\ Idle(Redirected(r, n))
    BY <1>0, <2>4, NotCompleted, NotVerified
  <2>5. CASE disk' = disk
    BY <2>5
  <2> HIDE DEF Idle
  <2> QED BY <2>1, <2>2, <2>3, <2>4, <2>5
<1> HIDE DEF Changed, Idle
<1> QED
  BY <1>1, <1>2

LEMMA LongDecides ==
    ASSUME GateInv, NEW s \in Sessions, LongHandler(s), NEW u \in Tasks
    PROVE  /\ disk'[u].verified # disk[u].verified => u = on[s] /\ WorkVerified(s)
           /\ disk[u].state # "done" /\ disk'[u].state = "done" =>
                 u = on[s] /\ DoneEnd(s)
<1> DEFINE Idle == /\ disk'[u].verified = disk[u].verified
                   /\ disk[u].state # "done" => disk'[u].state # "done"
<1>0. ASSUME phase[s] # "idle"
      PROVE  /\ on[s] \in Tasks /\ snap[s] \in Record /\ snap[s].from # "done"
             /\ snap[s].verified = disk[on[s]].verified
             /\ snap[s].state = disk[on[s]].state
             /\ on[s] # u => \A x : Upsert(on[s], x) => disk'[u] = disk[u]
             /\ on[s] = u => \A x : Upsert(on[s], x) => disk'[u] = x
  <2>1. on[s] \in Tasks /\ on[s] # NoTask
    BY <1>0 DEF GateInv, TypeOK, SessionsConsistent
  <2>2. Core(snap[s]) = Core(disk[on[s]]) /\ Marked(snap[s])
    BY <2>1 DEF GateInv, ApprovalInv, RecordInv, RecordOK
  <2> QED BY <2>1, <2>2 DEF Core, Marked, Upsert, GateInv, TypeOK
<1>1. ASSUME NEW t \in Tasks,
             \/ WorkAlreadyVerified(s, t) \/ DoneBegin(s, t) \/ ReviewBegin(s, t)
             \/ HandoffBegin(s, t)
      PROVE  Idle
  BY <1>1 DEF WorkAlreadyVerified, vars, DoneBegin, ReviewBegin, HandoffBegin
<1>2. ASSUME NEW t \in Tasks, WorkBegin(s, t) PROVE Idle
  <2>1. disk[t] \in Record /\ disk[t].from # "done" /\ Upsert(t, PickedUp(disk[t]))
    BY <1>2 DEF GateInv, TypeOK, RecordInv, RecordOK, Marked, WorkBegin
  <2>2. /\ PickedUp(disk[t]).verified = disk[t].verified
        /\ disk[t].state # "done" => PickedUp(disk[t]).state # "done"
    BY <2>1, NotVerified, NotCompleted
  <2> QED BY <2>1, <2>2 DEF Upsert, GateInv, TypeOK
<1>3. CASE WorkExecuted(s) \/ Refuse(s)
  BY <1>3 DEF WorkExecuted, Refuse
<1>4. CASE WorkVerified(s)
  <2>1. phase[s] = "checks" /\ Upsert(on[s], Verified(snap[s]))
    BY <1>4 DEF WorkVerified
  <2>2. snap[s].state # "done" => Verified(snap[s]).state # "done"
    BY <1>0, <2>1, NotCompleted
  <2> QED BY <1>0, <1>4, <2>1, <2>2
<1>5. CASE DoneEnd(s)
  <2>1. phase[s] = "done" /\ Upsert(on[s], Completed(snap[s]))
    BY <1>5 DEF DoneEnd
  <2>2. Completed(snap[s]).verified = snap[s].verified
    BY <1>0, <2>1, NotVerified
  <2> QED BY <1>0, <1>5, <2>1, <2>2
<1>6. CASE ReviewEnd(s)
  <2>1. PICK v \in {"pass", "block"}, c \in {"none", "open"} :
           Upsert(on[s], Reviewed(snap[s], v, c))
    BY <1>6 DEF ReviewEnd
  <2>2. v \in Verdicts /\ c \in Calls /\ phase[s] = "review"
    BY <1>6, <2>1 DEF Verdicts, Calls, ReviewEnd
  <2>3. /\ Reviewed(snap[s], v, c).verified = snap[s].verified
        /\ snap[s].state # "done" => Reviewed(snap[s], v, c).state # "done"
    BY <1>0, <2>2, NotVerified, NotCompleted
  <2> QED BY <1>0, <2>1, <2>2, <2>3
<1>7. ASSUME NEW t \in Tasks, BlockBegin(s, t) PROVE Idle
  <2>1. disk[t] \in Record /\ \E needs \in Needs : Upsert(t, BlockedFor(disk[t], needs))
    BY <1>7 DEF GateInv, TypeOK, BlockBegin
  <2>2. \A needs \in Needs : /\ BlockedFor(disk[t], needs).verified = disk[t].verified
                             /\ BlockedFor(disk[t], needs).state = "blocked"
    BY <2>1 DEF BlockedFor, Record
  <2> QED BY <2>1, <2>2 DEF Upsert, GateInv, TypeOK
<1>8. CASE HandoffEnd(s)
  <2>1. phase[s] = "handoff" /\ Upsert(on[s], snap[s])
    BY <1>8 DEF HandoffEnd
  <2> QED BY <1>0, <2>1
<1> QED
  BY <1>1, <1>2, <1>3, <1>4, <1>5, <1>6, <1>7, <1>8 DEF LongHandler

\* chalk work marks no task verified while the director owes it an answer, as long
\* as nothing but the executor's own raise is issued on a task at work.
THEOREM OpenForkStopsVerify ==
    ASSUME OnlyAgentOverlaps
    PROVE  LifecycleSpec => NoVerifyOnOpenFork
<1> DEFINE Step == \A t \in Tasks :
                      ~disk[t].verified /\ disk'[t].verified =>
                          \A n \in Notes : issued[t][n] # "raised"
<1>1. GateInv /\ [Next]_vars => [Step]_vars
  <2> SUFFICES ASSUME GateInv, Next, NEW t \in Tasks,
                      ~disk[t].verified, disk'[t].verified,
                      NEW n \in Notes
               PROVE  issued[t][n] # "raised"
    OBVIOUS
  <2>1. PICK s \in Sessions : LongHandler(s)
    BY ShortDecidesNothing DEF Next
  <2>2. t = on[s] /\ phase[s] = "checks"
    BY <2>1, LongDecides DEF WorkVerified
  <2> QED BY <2>2, LifecycleAssumption DEF GateInv, ApprovalInv
<1>2. LifecycleSpec => []GateInv
  BY GateInvariance
<1> HIDE DEF Step
<1>3. LifecycleSpec => [][Step]_vars
  BY <1>1, <1>2, PTL DEF LifecycleSpec
<1> QED
  BY <1>3 DEF Step, NoVerifyOnOpenFork

\* GATES P5 and P6, as long as nothing but the executor's own raise is issued on a task
\* during a long handler on it: a task is completed on the test it is locked to, and its
\* passing review still has the lock it was given under, whatever was specified, amended,
\* edited, blocked and resumed in between; or the override was logged.
THEOREM CompletedOnApprovedTest ==
    ASSUME OnlyAgentOverlaps
    PROVE  LifecycleSpec => DoneOnApprovedTest
<1> DEFINE Step == \A t \in Tasks :
                      disk[t].state # "done" /\ disk'[t].state = "done" =>
                          /\ disk'[t].tests \subseteq {file[t]}
                          /\ ReviewRequired(t) /\ t \notin overrides' =>
                                disk'[t].verdict = "pass" /\ judged'[t] \subseteq disk'[t].tests
<1>1. GateInv /\ [Next]_vars => [Step]_vars
  <2> SUFFICES ASSUME GateInv, Next, NEW t \in Tasks,
                      disk[t].state # "done", disk'[t].state = "done"
               PROVE  /\ disk'[t].tests \subseteq {file[t]}
                      /\ ReviewRequired(t) /\ t \notin overrides' =>
                            disk'[t].verdict = "pass" /\ judged'[t] \subseteq disk'[t].tests
    OBVIOUS
  <2>1. PICK s \in Sessions : LongHandler(s)
    BY ShortDecidesNothing DEF Next
  <2>2. t = on[s] /\ DoneEnd(s) /\ t # NoTask
    BY <2>1, LongDecides, LifecycleAssumption
  <2>3. snap[s] \in Record /\ Core(snap[s]) = Core(disk[t]) /\ snap[s].state = "in-progress"
    BY <2>2 DEF GateInv, TypeOK, ApprovalInv, RecordInv, DoneEnd
  <2>4. /\ snap[s].tests = disk[t].tests /\ snap[s].verdict = disk[t].verdict
        /\ disk[t].state = "in-progress"
    BY <2>3 DEF Core
  <2>5. disk[t].tests \subseteq {file[t]}
    BY <2>2, <2>4 DEF DoneEnd, IntegrityGreen, InProgress
  <2>6. disk'[t].tests = disk[t].tests /\ disk'[t].verdict = disk[t].verdict
    <3>1. disk'[t] = Completed(snap[s])
      BY <2>2 DEF DoneEnd, Upsert, GateInv, TypeOK
    <3> QED BY <2>3, <2>4, <3>1, LockAndVerdictKept
  <2>7. ASSUME ReviewRequired(t), t \notin overrides'
        PROVE  disk[t].verdict = "pass" /\ judged'[t] \subseteq disk[t].tests
    BY <2>2, <2>4, <2>7 DEF DoneEnd, GateInv, ApprovalInv, Approved
  <2> QED BY <2>5, <2>6, <2>7
<1>2. LifecycleSpec => []GateInv
  BY GateInvariance
<1> HIDE DEF Step
<1>3. LifecycleSpec => [][Step]_vars
  BY <1>1, <1>2, PTL DEF LifecycleSpec
<1> QED
  BY <1>3 DEF Step, DoneOnApprovedTest
=============================================================================
