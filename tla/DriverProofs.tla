----------------------------- MODULE DriverProofs ------------------------------
(***************************************************************************)
(* Proofs about Driver, for any tasks, sessions, dependencies, overlaps    *)
(* and bounds.  Humans keep using the commands of TaskLifecycle meanwhile; *)
(* each theorem names the commands it has to do without.                   *)
(***************************************************************************)
EXTENDS Driver, TaskLifecycleProofs

-----------------------------------------------------------------------------
(* The steps of the driver, by what they do to a task.                     *)

\* What the driver makes of the record it has just read: that record, but for the
\* verdict of a review.
Fresh(t, r) ==
    /\ r \in Record
    /\ r.state = disk[t].state /\ r.from = disk[t].from /\ r.note = disk[t].note
    /\ r.reopened = disk[t].reopened /\ r.call \in {disk[t].call, "none"}

\* What it parks or completes: the record it has just read, or the copy with the verdict
\* that it took before it posted that.
AtHand(t, r) ==
    /\ r \in Record
    /\ r = disk[t] \/ (phase[Clock] = "posting" /\ r = snap[Clock])

\* The driver stops.
Halts == UNCHANGED <<disk, phase, on, snap, issued, owed>>

\* It waits for a subprocess.
Waits ==
    /\ phase[Clock] # "idle"
    /\ UNCHANGED <<disk, on, issued, owed>>
    /\ \/ phase' = [phase EXCEPT ![Clock] = "checks"] /\ UNCHANGED snap
       \/ \E f \in {"review", "posting"}, r \in Record :
             /\ Fresh(on[Clock], r)
             /\ phase' = [phase EXCEPT ![Clock] = f] /\ snap' = [snap EXCEPT ![Clock] = r]

\* It takes up the task that is next.
TakesUp(t) ==
    /\ phase[Clock] = "idle" /\ Runnable(t)
    /\ Upsert(t, Started(disk[t])) /\ Begin(Clock, t, Started(disk[t]), "executor")
    /\ owed' = owed \ {t} /\ UNCHANGED issued

\* It parks the task that is next or the one it is at, and goes on to tell of it.
Parks(t) ==
    /\ IF phase[Clock] = "idle" THEN Runnable(t) ELSE t = on[Clock]
    /\ \E r \in Record, needs \in Needs :
          /\ AtHand(t, r) /\ Upsert(t, BlockedFor(r, needs))
          /\ Begin(Clock, t, BlockedFor(r, needs), "handoff")
    /\ UNCHANGED <<issued, owed>>
Tells(t) ==
    /\ t = on[Clock] /\ phase[Clock] = "handoff"
    /\ Upsert(t, snap[Clock]) /\ End(Clock) /\ UNCHANGED <<issued, owed>>

\* It completes the task it is at.
Finishes(t) ==
    /\ t = on[Clock] /\ phase[Clock] # "idle"
    /\ \E r \in Record : AtHand(t, r) /\ Upsert(t, [r EXCEPT !.state = "done"])
    /\ End(Clock) /\ UNCHANGED <<issued, owed>>

LEMMA VerdictIsFresh ==
  ASSUME TypeOK, NEW t \in Tasks, NEW v \in {"pass", "block"}
  PROVE  Fresh(t, disk[t]) /\ Fresh(t, RecordedVerdict(t, v))
<1>1. disk[t] \in Record /\ v \in Verdicts /\ "none" \in Calls
  BY DEF TypeOK, Verdicts, Calls
<1>2. RecordedVerdict(t, v) \in Record
  BY <1>1 DEF RecordedVerdict, Record
<1>3. QED
  BY <1>1, <1>2 DEF Fresh, RecordedVerdict, Record

LEMMA DriverSteps ==
  ASSUME TypeOK, SessionsConsistent, DriverStep
  PROVE  Halts \/ Waits \/ \E t \in Tasks : TakesUp(t) \/ Parks(t) \/ Tells(t) \/ Finishes(t)
<1> DEFINE u == on[Clock]
<1>0. /\ Clock \in Sessions /\ (phase[Clock] # "idle" => u \in Tasks)
      /\ snap[Clock] \in Record /\ \A t \in Tasks : disk[t] \in Record
  BY DriverAssumption DEF TypeOK, SessionsConsistent
<1>1. CASE StopEmpty \/ StopMax
  BY <1>1 DEF StopEmpty, StopMax, vars, Halts
<1>2. ASSUME NEW t \in Tasks, Pick(t) PROVE TakesUp(t)
  BY <1>2 DEF Pick, Looping, IsNext, TakesUp, history
<1>3. ASSUME NEW t \in Tasks, ParkUnaligned(t) PROVE Parks(t)
  <2>1. /\ phase[Clock] = "idle" /\ Runnable(t) /\ Park(t, disk[t], "human-input")
        /\ "human-input" \in Needs /\ disk[t] \in Record /\ AtHand(t, disk[t])
    BY <1>0, <1>3 DEF ParkUnaligned, Looping, IsNext, Needs, AtHand
  <2>2. QED
    BY <2>1 DEF Park, Parks
<1>4. CASE Executed
  BY <1>4 DEF Executed, Waits, history, driver
<1>5. CASE SendToReview
  <2>1. Fresh(u, disk[u]) /\ disk[u] \in Record
    BY <1>0, <1>5, VerdictIsFresh DEF SendToReview
  <2>2. QED
    BY <1>5, <2>1 DEF SendToReview, Waits, history, driver
<1>6. ASSUME NEW v \in {"pass", "block"}, ReviewReturned(v) PROVE Waits
  <2>1. Fresh(u, RecordedVerdict(u, v)) /\ RecordedVerdict(u, v) \in Record
    BY <1>0, <1>6, VerdictIsFresh DEF ReviewReturned, Fresh
  <2> DEFINE x == RecordedVerdict(u, v)
  <2>2. /\ phase[Clock] # "idle" /\ phase' = [phase EXCEPT ![Clock] = "posting"]
        /\ snap' = [snap EXCEPT ![Clock] = x] /\ UNCHANGED <<disk, on, issued, owed>>
    BY <1>6 DEF ReviewReturned, driver
  <2> HIDE DEF x
  <2>3. Fresh(u, x) /\ x \in Record
    BY <2>1 DEF x
  <2>4. QED
    BY <2>2, <2>3 DEF Waits
<1>7. ASSUME phase[Clock] # "idle", NEW r \in Record, AtHand(u, r), NEW needs \in Needs,
             Park(u, r, needs)
      PROVE  Parks(u)
  BY <1>7 DEF Park, Parks
<1>8. ASSUME phase[Clock] # "idle", NEW r \in Record, AtHand(u, r), Complete(u, r)
      PROVE  Finishes(u)
  BY <1>8 DEF Complete, Finishes
<1>9. CASE ParkOnRaise \/ ParkOnRed \/ ReviewFailed
  <2>1. u \in Tasks /\ phase[Clock] # "idle" /\ AtHand(u, disk[u]) /\ disk[u] \in Record
    BY <1>0, <1>9 DEF ParkOnRaise, ParkOnRed, ReviewFailed, AtHand
  <2>2. QED
    BY <1>7, <1>9, <2>1 DEF ParkOnRaise, ParkOnRed, ReviewFailed, Needs
<1>10. CASE ReviewBlocked
  BY <1>0, <1>7, <1>10 DEF ReviewBlocked, Needs, AtHand
<1>11. CASE CompleteUnreviewed
  BY <1>0, <1>8, <1>11 DEF CompleteUnreviewed, AtHand
<1>12. CASE ReviewPassed
  BY <1>0, <1>8, <1>12 DEF ReviewPassed, AtHand
<1>13. CASE HandedOff
  BY <1>0, <1>13 DEF HandedOff, Tells, history
<1>14. QED
  BY <1>0, <1>1, <1>2, <1>3, <1>4, <1>5, <1>6, <1>9, <1>10, <1>11, <1>12, <1>13 DEF DriverStep

\* A step of the driver is a step of its session.
LEMMA DriverSessions ==
  ASSUME TypeOK, SessionsConsistent, DriverStep
  PROVE  SessionsConsistent'
<1>0. Clock \in Sessions
  BY DriverAssumption
<1>1. CASE Halts
  BY <1>1 DEF Halts, SessionsConsistent
<1>2. CASE Waits
  BY <1>0, <1>2 DEF Waits, SessionsConsistent, TypeOK
<1>3. ASSUME NEW t \in Tasks, TakesUp(t) \/ Parks(t) PROVE SessionsConsistent'
  <2>1. PICK r, f : f \in {"executor", "handoff"} /\ Begin(Clock, t, r, f)
    BY <1>3 DEF TakesUp, Parks
  <2>2. QED
    BY <1>0, <2>1, LifecycleAssumption DEF Begin, SessionsConsistent, TypeOK
<1>4. ASSUME NEW t \in Tasks, Tells(t) \/ Finishes(t) PROVE SessionsConsistent'
  BY <1>0, <1>4 DEF Tells, Finishes, End, SessionsConsistent, TypeOK
<1>5. QED
  BY <1>1, <1>2, <1>3, <1>4, DriverSteps

-----------------------------------------------------------------------------
(* Types.                                                                  *)

\* The tasks, corrections and sessions that a step of the driver leaves.
RecordsTyped ==
    /\ disk \in [Tasks -> Record] /\ phase \in [Sessions -> Phases]
    /\ on \in [Sessions -> Tasks \cup {NoTask}] /\ snap \in [Sessions -> Record]
    /\ issued \in [Tasks -> [Notes -> NoteStatus]]

LEMMA DriverRecords ==
  ASSUME TypeOK, SessionsConsistent, DriverStep
  PROVE  RecordsTyped'
<1> USE DEF TypeOK, Upsert, Phases, RecordsTyped
<1>0. Clock \in Sessions /\ Created \in Record /\ snap[Clock] \in Record
  BY DriverAssumption, CreatedIsRecord
<1>1. CASE Halts
  BY <1>1 DEF Halts
<1>2. CASE Waits
  BY <1>0, <1>2 DEF Waits
<1>3. ASSUME NEW t \in Tasks, NEW x \in Record, NEW f \in {"executor", "handoff"},
             Upsert(t, x), Begin(Clock, t, x, f), UNCHANGED issued
      PROVE  RecordsTyped'
  BY <1>0, <1>3 DEF Begin
<1>4. ASSUME NEW t \in Tasks, NEW x \in Record, Upsert(t, x), End(Clock), UNCHANGED issued
      PROVE  RecordsTyped'
  BY <1>0, <1>4 DEF End
<1>5. ASSUME NEW t \in Tasks, TakesUp(t) PROVE RecordsTyped'
  <2>1. Started(disk[t]) \in Record
    BY SimpleOpsAreRecords
  <2>2. QED
    BY <1>3, <1>5, <2>1 DEF TakesUp
<1>6. ASSUME NEW t \in Tasks, Parks(t) PROVE RecordsTyped'
  <2>1. PICK r \in Record, needs \in Needs :
           Upsert(t, BlockedFor(r, needs)) /\ Begin(Clock, t, BlockedFor(r, needs), "handoff")
    BY <1>6 DEF Parks
  <2>2. BlockedFor(r, needs) \in Record
    BY SimpleOpsAreRecords
  <2>3. QED
    BY <1>3, <1>6, <2>1, <2>2 DEF Parks
<1>7. ASSUME NEW t \in Tasks, Tells(t) PROVE RecordsTyped'
  BY <1>0, <1>4, <1>7 DEF Tells
<1>8. ASSUME NEW t \in Tasks, Finishes(t) PROVE RecordsTyped'
  <2>1. PICK r \in Record : Upsert(t, [r EXCEPT !.state = "done"])
    BY <1>8 DEF Finishes
  <2>2. [r EXCEPT !.state = "done"] \in Record
    BY DEF Record, States
  <2>3. QED
    BY <1>4, <1>8, <2>1, <2>2 DEF Finishes
<1>9. QED
  BY <1>1, <1>2, <1>5, <1>6, <1>7, <1>8, DriverSteps

\* The files, histories and counters that it leaves.
LEMMA DriverCounts ==
  ASSUME DriverTypeOK, SessionsConsistent, DriverStep
  PROVE  /\ file' \in [Tasks -> Revisions] /\ judged' \in [Tasks -> SUBSET Revisions]
         /\ overrides' \subseteq Tasks /\ reblocked' \subseteq Tasks /\ owed' \subseteq Tasks
         /\ iterations' \in 0..MaxIter /\ stopped' \in Stops /\ runs' \in 0..MaxRuns
<1> USE DEF DriverTypeOK, TypeOK, Stops
<1>0. Clock \in Sessions /\ (phase[Clock] # "idle" => on[Clock] \in Tasks)
      /\ (iterations < MaxIter => iterations + 1 \in 0..MaxIter)
  BY DriverAssumption DEF SessionsConsistent
<1>1. CASE StopEmpty \/ StopMax
  BY <1>1 DEF StopEmpty, StopMax, vars
<1>2. ASSUME NEW t \in Tasks, Pick(t)
      PROVE  /\ iterations' \in 0..MaxIter /\ owed' \subseteq Tasks
             /\ UNCHANGED <<file, judged, overrides, reblocked, stopped, runs>>
  BY <1>0, <1>2 DEF Pick, history
<1>3. ASSUME NEW t \in Tasks, NEW r, NEW needs, Park(t, r, needs)
      PROVE  reblocked' \subseteq Tasks /\ UNCHANGED <<file, overrides, stopped, runs, owed>>
  BY <1>3 DEF Park
<1>4. ASSUME NEW t \in Tasks, ParkUnaligned(t)
      PROVE  /\ reblocked' \subseteq Tasks /\ iterations' \in 0..MaxIter
             /\ UNCHANGED <<file, judged, overrides, stopped, runs, owed>>
  BY <1>0, <1>3, <1>4 DEF ParkUnaligned
<1>5. CASE Executed \/ SendToReview
  BY <1>5 DEF Executed, SendToReview, history, driver
<1>6. ASSUME NEW v \in {"pass", "block"}, ReviewReturned(v)
      PROVE  /\ judged' \in [Tasks -> SUBSET Revisions]
             /\ UNCHANGED <<file, overrides, reblocked, iterations, stopped, runs, owed>>
  <2>1. snap[Clock].tests \in SUBSET Revisions
    BY <1>0 DEF Record
  <2>2. QED
    BY <1>0, <1>6, <2>1 DEF ReviewReturned, driver
<1>7. CASE ParkOnRaise \/ ParkOnRed \/ ReviewFailed \/ ReviewBlocked
  BY <1>0, <1>3, <1>7 DEF ParkOnRaise, ParkOnRed, ReviewFailed, ReviewBlocked
<1>8. CASE CompleteUnreviewed \/ ReviewPassed
  BY <1>0, <1>8 DEF CompleteUnreviewed, ReviewPassed, Complete
<1>9. CASE HandedOff
  BY <1>9 DEF HandedOff, history
<1>10. QED
  BY <1>1, <1>2, <1>4, <1>5, <1>6, <1>7, <1>8, <1>9 DEF DriverStep

DriverInv == DriverTypeOK /\ SessionsConsistent

LEMMA HumanIsNext == Human => Next
BY DEF Human, Next

LEMMA DriverNextTyped == DriverInv /\ [DriverNext]_driverVars => DriverInv'
<1> SUFFICES ASSUME DriverInv, [DriverNext]_driverVars PROVE DriverInv'
  OBVIOUS
<1> USE DEF DriverInv
<1>1. CASE DriverStep
  BY <1>1, DriverSessions, DriverRecords, DriverCounts DEF DriverTypeOK, TypeOK, RecordsTyped
<1>2. CASE Human
  <2>1. TypeOK'
    BY <1>2, ShortHandlerTyped, LongHandlerTyped DEF Human, SessionsConsistent, DriverTypeOK
  <2>2. SessionsConsistent'
    BY <1>2, HumanIsNext, StepConsistent DEF DriverTypeOK
  <2>3. QED
    BY <1>2, <2>1, <2>2 DEF Human, DriverTypeOK
<1>3. CASE Run \/ UNCHANGED driverVars
  <2>1. UNCHANGED vars /\ UNCHANGED owed
    BY <1>3 DEF Run, driverVars, driver
  <2>2. TypeOK' /\ SessionsConsistent'
    BY <2>1 DEF vars, DriverTypeOK, TypeOK, SessionsConsistent
  <2>3. iterations' \in 0..MaxIter /\ stopped' \in Stops /\ runs' \in 0..MaxRuns
    BY <1>3, DriverAssumption DEF Run, driverVars, driver, DriverTypeOK, Stops
  <2>4. QED
    BY <2>1, <2>2, <2>3 DEF DriverTypeOK
<1>4. QED
  BY <1>1, <1>2, <1>3 DEF DriverNext

LEMMA DriverInitTyped == DriverInit => DriverInv
BY InitTyped, DriverAssumption DEF DriverInit, Init, DriverInv, DriverTypeOK, SessionsConsistent, Stops

\* The driver's counters, the tasks and the sessions keep their types in every reachable
\* state, whatever humans do meanwhile.
THEOREM DriverTypeCorrect == DriverSpec => []DriverTypeOK
<1>1. DriverInv => DriverTypeOK
  BY DEF DriverInv
<1>2. QED
  BY <1>1, DriverInitTyped, DriverNextTyped, PTL DEF DriverSpec

-----------------------------------------------------------------------------
(* What the commands of humans do to a task.                               *)

\* Humans start no task, and let none go on.
HandsOff == Commands \cap {"start", "unblock", "answer"} = {}

\* A task becomes done, or is no longer done, re-opened or open to a redirect, only for
\* the reasons named; and with hands off it stays ready, parked or done.
Steered(t, r, x) ==
    /\ x.reopened => r.reopened \/ (r.call = "open" /\ "reopen" \in Commands)
    /\ x.call = "open" => r.call = "open"
    /\ r.state = "done" => x.state = "done" \/ r.call = "open"
    /\ x.state = "done" => r.state = "done" \/ r.from = "done"
    /\ x.from = "done" => r.from = "done"
    /\ HandsOff /\ r.state \in {"specd", "blocked", "done"} /\ r.call # "open" =>
          x.state \in {"specd", "blocked", "done"}

LEMMA RestoredSteers ==
  ASSUME NEW r \in Record, r.state = "blocked", NEW d \in {"specd", "in-progress"}
  PROVE  /\ Restored(r, d).reopened = r.reopened /\ Restored(r, d).call = r.call
         /\ Restored(r, d).state = "done" => r.from = "done"
         /\ Restored(r, d).from = "none"
BY DEF Restored, Record

LEMMA ShortHandlerSteers ==
  ASSUME TypeOK, NEW t \in Tasks, ShortHandler(t)
  PROVE  /\ UNCHANGED <<phase, on, snap>>
         /\ \A u \in Tasks : u # t => disk'[u] = disk[u]
         /\ Steered(t, disk[t], disk'[t])
<1> DEFINE r == disk[t]
<1>0. r \in Record
  BY DEF TypeOK
<1>1. /\ UNCHANGED <<phase, on, snap>>
      /\ \A u \in Tasks : u # t => disk'[u] = disk[u]
  BY DEF ShortHandler, Spec, Align, Start, Unblock, EditTest, AmendSpec, Raise, Answer,
     Accept, Redirect, sessions, Upsert, TypeOK
<1> SUFFICES Steered(t, disk[t], disk'[t])
  BY <1>1
<1>2. ASSUME NEW x, Upsert(t, x) PROVE disk'[t] = x
  BY <1>2 DEF Upsert, TypeOK
<1> HIDE DEF r
<1>3. CASE Spec(t)
  <2>1. PICK c \in BOOLEAN, l \in SUBSET Revisions : disk'[t] = Specced(r, c, l)
    BY <1>2, <1>3, SpecWrites DEF r
  <2>2. QED
    BY <1>0, <2>1, SpeccedKeeps DEF Steered, r
<1>4. CASE Align(t)
  <2>1. disk'[t] = Aligned(r)
    BY <1>2, <1>4 DEF Align, r
  <2>2. QED
    BY <1>0, <2>1 DEF Aligned, Record, Steered, r
<1>5. CASE Start(t)
  <2>1. disk'[t] = Started(r) /\ r.state # "done" /\ ~HandsOff
    BY <1>2, <1>5 DEF Start, May, HandsOff, r
  <2>2. QED
    BY <1>0, <2>1 DEF Started, Record, Steered, r
<1>7. CASE Unblock(t)
  <2>1. /\ disk'[t] = Restored(r, "specd") /\ r.state = "blocked" /\ ~HandsOff
    BY <1>2, <1>7 DEF Unblock, Unblocked, May, HandsOff, r
  <2>2. QED
    BY <1>0, <2>1, RestoredSteers DEF Steered, r
<1>8. CASE EditTest(t)
  BY <1>8 DEF EditTest, Steered
<1>9. CASE AmendSpec(t)
  <2>1. disk'[t] = Amended(r, file[t])
    BY <1>2, <1>9 DEF AmendSpec, r
  <2>2. QED
    BY <1>0, <2>1 DEF Amended, Record, Steered, r
<1>10. CASE Raise(t)
  <2>1. PICK n \in Notes : disk'[t] = Raised(r, n)
    BY <1>2, <1>10 DEF Raise, r
  <2>2. QED
    BY <1>0, <2>1 DEF Raised, Record, Steered, r
<1>11. CASE Answer(t)
  <2>1. PICK n \in OpenRaises(r) : disk'[t] = Answered(r, n)
    BY <1>2, <1>11 DEF Answer, r
  <2>2. ~HandsOff
    BY <1>11 DEF Answer, May, HandsOff
  <2> DEFINE s == [r EXCEPT !.note[n] = "directed"]
  <2>3. /\ s \in Record /\ s.state = r.state /\ s.from = r.from /\ s.call = r.call
        /\ s.reopened = r.reopened
    <3>1. r.note \in [Notes -> NoteStatus] /\ n \in Notes
      BY <1>0, <2>1 DEF Record, OpenRaises
    <3>2. QED
      BY <1>0, <3>1 DEF Record, NoteStatus
  <2>4. \/ disk'[t] = s
        \/ s.state = "blocked" /\ disk'[t] = Restored(s, "in-progress")
    BY <2>1 DEF Answered
  <2> HIDE DEF s
  <2>5. QED
    BY <2>2, <2>3, <2>4, RestoredSteers DEF Steered, r
<1>12. CASE Accept(t)
  <2>1. disk'[t] = Accepted(r)
    BY <1>2, <1>12 DEF Accept, r
  <2>2. QED
    BY <1>0, <2>1 DEF Accepted, Record, Steered, r
<1>13. CASE Redirect(t)
  <2>1. PICK n \in Notes : disk'[t] = Redirected(r, n)
    BY <1>2, <1>13 DEF Redirect, r
  <2>2. r.call = "open" /\ (r.state = "done" => "reopen" \in Commands)
    BY <1>13 DEF Redirect, May, r
  <2>3. /\ Redirected(r, n).reopened = (r.reopened \/ r.state = "done")
        /\ Redirected(r, n).state = IF r.state = "done" THEN "in-progress" ELSE r.state
        /\ Redirected(r, n).call = "redirected" /\ Redirected(r, n).from = r.from
    BY <1>0 DEF Redirected, Record
  <2>4. QED
    BY <2>1, <2>2, <2>3 DEF Steered, r
<1>14. QED
  BY <1>3, <1>4, <1>5, <1>7, <1>8, <1>9, <1>10, <1>11, <1>12, <1>13 DEF ShortHandler

-----------------------------------------------------------------------------
(* No executor is run twice.                                               *)

\* As long as no done task is re-opened, no record has the marker.
NeverReopened ==
    /\ \A t \in Tasks : ~disk[t].reopened
    /\ \A s \in Sessions : ~snap[s].reopened

\* A task that is ready was handed to the driver.
ReadyIsOwed == \A t \in Tasks : disk[t].state = "specd" => t \in owed

LEMMA LongHandlerReopens ==
  ASSUME TypeOK, SessionsConsistent, NeverReopened, NEW s \in Sessions, LongHandler(s)
  PROVE  NeverReopened'
<1> USE DEF NeverReopened
<1>0. /\ snap[s] \in Record /\ (phase[s] # "idle" => on[s] \in Tasks)
      /\ \A t \in Tasks : disk[t] \in Record
  BY DEF TypeOK, SessionsConsistent
<1>1. ASSUME NEW t \in Tasks, NEW r, ~r.reopened, NEW f, Begin(s, t, r, f),
             disk' = disk \/ Upsert(t, r)
      PROVE  NeverReopened'
  BY <1>1 DEF Begin, Upsert, TypeOK
<1>2. ASSUME phase[s] # "idle", NEW x, ~x.reopened, End(s), disk' = disk \/ Upsert(on[s], x)
      PROVE  NeverReopened'
  BY <1>2 DEF End, Upsert, TypeOK, Created
<1>3. ASSUME NEW t \in Tasks, WorkAlreadyVerified(s, t) PROVE NeverReopened'
  BY <1>3 DEF WorkAlreadyVerified, vars
<1>4. ASSUME NEW t \in Tasks, WorkBegin(s, t) PROVE NeverReopened'
  <2>1. ~PickedUp(disk[t]).reopened
    BY <1>0 DEF PickedUp, Started, Record
  <2>2. QED
    BY <1>1, <1>4, <2>1 DEF WorkBegin
<1>5. ASSUME NEW t \in Tasks, DoneBegin(s, t) \/ ReviewBegin(s, t) \/ HandoffBegin(s, t)
      PROVE  NeverReopened'
  BY <1>1, <1>5 DEF DoneBegin, ReviewBegin, HandoffBegin
<1>12. ASSUME NEW t \in Tasks, BlockBegin(s, t) PROVE NeverReopened'
  <2>1. PICK needs \in Needs : /\ Upsert(t, BlockedFor(disk[t], needs))
                               /\ Begin(s, t, BlockedFor(disk[t], needs), "handoff")
    BY <1>12 DEF BlockBegin
  <2>2. ~BlockedFor(disk[t], needs).reopened
    BY <1>0 DEF BlockedFor, Record
  <2>3. QED
    BY <1>1, <2>1, <2>2
<1>13. CASE HandoffEnd(s)
  BY <1>0, <1>2, <1>13 DEF HandoffEnd
<1>6. CASE WorkExecuted(s)
  BY <1>6 DEF WorkExecuted
<1>7. CASE WorkVerified(s)
  <2>1. ~Verified(snap[s]).reopened
    BY <1>0 DEF Verified, Record
  <2>2. QED
    BY <1>2, <1>7, <2>1 DEF WorkVerified
<1>8. CASE DoneEnd(s)
  <2>1. ~Completed(snap[s]).reopened
    BY <1>0 DEF Completed, ResolveDirectives, Record
  <2>2. QED
    BY <1>2, <1>8, <2>1 DEF DoneEnd
<1>9. CASE ReviewEnd(s)
  <2>1. PICK v \in {"pass", "block"}, c \in {"none", "open"} : Upsert(on[s], Reviewed(snap[s], v, c))
    BY <1>9 DEF ReviewEnd
  <2>2. ~Reviewed(snap[s], v, c).reopened
    BY <1>0 DEF Reviewed, ClearReviewBlockOnPass, Restored, Record
  <2>3. QED
    BY <1>2, <1>9, <2>1, <2>2 DEF ReviewEnd
<1>10. CASE Refuse(s)
  BY <1>0, <1>2, <1>10 DEF Refuse, Created
<1>11. QED
  BY <1>3, <1>4, <1>5, <1>6, <1>7, <1>8, <1>9, <1>10, <1>12, <1>13 DEF LongHandler

\* The copy of a parked task is parked.
ParkedCopy == phase[Clock] = "handoff" => snap[Clock].state = "blocked"

LEMMA BlockedForParks ==
  ASSUME NEW r \in Record, NEW needs \in Needs
  PROVE  LET x == BlockedFor(r, needs)
         IN  /\ x.state = "blocked" /\ x.from = r.state /\ x.note = r.note
             /\ x.reopened = r.reopened /\ x.call = r.call
BY DEF BlockedFor, Record

LEMMA DriverKeepsParkedCopy ==
  ASSUME TypeOK, SessionsConsistent, ParkedCopy, DriverStep
  PROVE  ParkedCopy'
<1>0. Clock \in Sessions
  BY DriverAssumption
<1>1. CASE Halts
  BY <1>1 DEF Halts, ParkedCopy
<1>2. CASE Waits
  BY <1>0, <1>2 DEF Waits, ParkedCopy, TypeOK
<1>3. ASSUME NEW t \in Tasks, TakesUp(t) PROVE ParkedCopy'
  BY <1>0, <1>3 DEF TakesUp, Begin, ParkedCopy, TypeOK
<1>4. ASSUME NEW t \in Tasks, Parks(t) PROVE ParkedCopy'
  <2>1. PICK r \in Record, needs \in Needs : Begin(Clock, t, BlockedFor(r, needs), "handoff")
    BY <1>4 DEF Parks
  <2>2. snap'[Clock].state = "blocked"
    BY <1>0, <2>1, BlockedForParks DEF Begin, TypeOK
  <2>3. QED
    BY <2>2 DEF ParkedCopy
<1>5. ASSUME NEW t \in Tasks, Tells(t) \/ Finishes(t) PROVE ParkedCopy'
  BY <1>0, <1>5 DEF Tells, Finishes, End, ParkedCopy, TypeOK
<1>6. QED
  BY <1>1, <1>2, <1>3, <1>4, <1>5, DriverSteps

\* Humans do not touch what the driver has at hand.
LEMMA HumansLeaveTheClock ==
  ASSUME TypeOK, Human
  PROVE  phase'[Clock] = phase[Clock] /\ on'[Clock] = on[Clock] /\ snap'[Clock] = snap[Clock]
<1>1. ASSUME NEW t \in Tasks, ShortHandler(t) PROVE UNCHANGED <<phase, on, snap>>
  BY <1>1, ShortHandlerSteers
<1>2. ASSUME NEW s \in Sessions \ {Clock}, LongHandler(s)
      PROVE  phase'[Clock] = phase[Clock] /\ on'[Clock] = on[Clock] /\ snap'[Clock] = snap[Clock]
  BY <1>2, DriverAssumption DEF LongHandler, WorkAlreadyVerified, WorkBegin, DoneBegin, ReviewBegin,
     BlockBegin, HandoffBegin, WorkExecuted, WorkVerified, DoneEnd, ReviewEnd, HandoffEnd, Refuse,
     Begin, End, TypeOK, vars
<1>3. QED
  BY <1>1, <1>2 DEF Human

LEMMA DriverReopensNothing ==
  ASSUME TypeOK, SessionsConsistent, NeverReopened, DriverStep
  PROVE  NeverReopened'
<1> USE DriverAssumption DEF NeverReopened
<1>0. \A t \in Tasks, r \in Record : AtHand(t, r) => ~r.reopened
  BY DEF AtHand
<1>1. CASE Halts
  BY <1>1 DEF Halts
<1>2. CASE Waits
  <2>1. CASE UNCHANGED snap
    BY <1>2, <2>1 DEF Waits
  <2>2. ASSUME NEW r \in Record, Fresh(on[Clock], r), snap' = [snap EXCEPT ![Clock] = r]
        PROVE  NeverReopened'
    <3>1. on[Clock] \in Tasks /\ r.reopened = disk[on[Clock]].reopened
      BY <1>2, <2>2 DEF Waits, Fresh, SessionsConsistent, TypeOK
    <3>2. QED
      BY <1>2, <2>2, <3>1 DEF Waits, TypeOK
  <2>3. QED
    BY <1>2, <2>1, <2>2 DEF Waits
<1>3. ASSUME NEW t \in Tasks, NEW x, ~x.reopened, Upsert(t, x),
             End(Clock) \/ \E f : Begin(Clock, t, x, f)
      PROVE  NeverReopened'
  <2>1. \A u \in Tasks : ~disk'[u].reopened
    BY <1>3 DEF Upsert, TypeOK
  <2>2. CASE End(Clock)
    BY <2>1, <2>2 DEF End, TypeOK, Created
  <2>3. ASSUME NEW f, Begin(Clock, t, x, f) PROVE NeverReopened'
    BY <1>3, <2>1, <2>3 DEF Begin, TypeOK
  <2>4. QED
    BY <1>3, <2>2, <2>3
<1>4. ASSUME NEW t \in Tasks, TakesUp(t) PROVE NeverReopened'
  <2>1. ~Started(disk[t]).reopened
    BY DEF Started, TypeOK, Record
  <2>2. QED
    BY <1>3, <1>4, <2>1 DEF TakesUp
<1>5. ASSUME NEW t \in Tasks, Parks(t) PROVE NeverReopened'
  <2>1. PICK r \in Record, needs \in Needs :
           /\ AtHand(t, r) /\ Upsert(t, BlockedFor(r, needs))
           /\ Begin(Clock, t, BlockedFor(r, needs), "handoff")
    BY <1>5 DEF Parks
  <2>2. ~BlockedFor(r, needs).reopened
    BY <1>0, <2>1, BlockedForParks
  <2>3. QED
    BY <1>3, <2>1, <2>2
<1>6. ASSUME NEW t \in Tasks, Tells(t) PROVE NeverReopened'
  BY <1>3, <1>6 DEF Tells
<1>7. ASSUME NEW t \in Tasks, Finishes(t) PROVE NeverReopened'
  <2>1. PICK r \in Record : AtHand(t, r) /\ Upsert(t, [r EXCEPT !.state = "done"])
    BY <1>7 DEF Finishes
  <2>2. ~[r EXCEPT !.state = "done"].reopened
    BY <1>0, <2>1 DEF Record
  <2>3. QED
    BY <1>3, <1>7, <2>1, <2>2 DEF Finishes
<1>8. QED
  BY <1>1, <1>2, <1>4, <1>5, <1>6, <1>7, DriverSteps

\* A step of the driver makes no task ready, and takes from those owed only the one it
\* puts in progress.
LEMMA DriverReadiesNothing ==
  ASSUME TypeOK, SessionsConsistent, ParkedCopy, ReadyIsOwed, DriverStep
  PROVE  ReadyIsOwed'
<1>1. CASE Halts \/ Waits
  BY <1>1 DEF Halts, Waits, ReadyIsOwed
<1>2. ASSUME NEW t \in Tasks, NEW x, Upsert(t, x), x.state # "specd", owed \ {t} \subseteq owed'
      PROVE  ReadyIsOwed'
  BY <1>2 DEF Upsert, TypeOK, ReadyIsOwed
<1>3. ASSUME NEW t \in Tasks, TakesUp(t) PROVE ReadyIsOwed'
  <2>1. Started(disk[t]).state = "in-progress"
    BY DEF Started, Record, TypeOK
  <2>2. QED
    BY <1>2, <1>3, <2>1 DEF TakesUp
<1>4. ASSUME NEW t \in Tasks, Parks(t) PROVE ReadyIsOwed'
  <2>1. PICK r \in Record, needs \in Needs : Upsert(t, BlockedFor(r, needs))
    BY <1>4 DEF Parks
  <2>2. BlockedFor(r, needs).state # "specd"
    BY BlockedForParks
  <2>3. QED
    BY <1>2, <1>4, <2>1, <2>2 DEF Parks
<1>5. ASSUME NEW t \in Tasks, Tells(t) PROVE ReadyIsOwed'
  BY <1>2, <1>5 DEF Tells, ParkedCopy
<1>6. ASSUME NEW t \in Tasks, Finishes(t) PROVE ReadyIsOwed'
  <2>1. PICK r \in Record : Upsert(t, [r EXCEPT !.state = "done"])
    BY <1>6 DEF Finishes
  <2>2. [r EXCEPT !.state = "done"].state # "specd"
    BY DEF Record
  <2>3. QED
    BY <1>2, <1>6, <2>1, <2>2 DEF Finishes
<1>7. QED
  BY <1>1, <1>3, <1>4, <1>5, <1>6, DriverSteps

\* As long as no done task is re-opened, the driver runs the executor of a task only when
\* the task was handed to it since it last did, whatever other commands humans issue, and
\* whatever stale record they write back.
THEOREM ExecutorsRunOnce ==
  ASSUME "reopen" \notin Commands
  PROVE  DriverSpec => NoDoubleRun
<1> DEFINE OnceInv == DriverInv /\ NeverReopened /\ ReadyIsOwed /\ ParkedCopy
<1>1. DriverInit => OnceInv
  <2>1. DriverInit => NeverReopened /\ ReadyIsOwed /\ ParkedCopy
    BY DriverAssumption DEF DriverInit, Init, NeverReopened, ReadyIsOwed, ParkedCopy, Created
  <2>2. QED
    BY <2>1, DriverInitTyped
<1>2. OnceInv /\ [DriverNext]_driverVars => OnceInv'
  <2> SUFFICES ASSUME OnceInv, [DriverNext]_driverVars
               PROVE  NeverReopened' /\ ReadyIsOwed' /\ ParkedCopy'
    BY DriverNextTyped
  <2> USE DEF DriverInv, DriverTypeOK
  <2>1. CASE DriverStep
    BY <2>1, DriverReopensNothing, DriverReadiesNothing, DriverKeepsParkedCopy
  <2>2. CASE Human
    <3>1. NeverReopened'
      <4>1. ASSUME NEW t \in Tasks, ShortHandler(t) PROVE NeverReopened'
        <5>1. /\ UNCHANGED snap /\ \A u \in Tasks : u # t => disk'[u] = disk[u]
              /\ disk'[t].reopened => disk[t].reopened
          BY <4>1, ShortHandlerSteers DEF Steered
        <5>2. QED
          BY <5>1 DEF NeverReopened
      <4>2. QED
        BY <2>2, <4>1, LongHandlerReopens DEF Human
    <3>2. ReadyIsOwed'
      BY <2>2 DEF Human, HandedBack, ReadyIsOwed
    <3>3. ParkedCopy'
      BY <2>2, HumansLeaveTheClock DEF ParkedCopy
    <3>4. QED
      BY <3>1, <3>2, <3>3
  <2>3. CASE Run \/ UNCHANGED driverVars
    BY <2>3 DEF Run, driverVars, driver, vars, NeverReopened, ReadyIsOwed, ParkedCopy
  <2>4. QED
    BY <2>1, <2>2, <2>3 DEF DriverNext
<1>3. OnceInv => [\A t \in Tasks : Pick(t) => t \in owed]_driverVars
  BY DEF NeverReopened, ReadyIsOwed, Pick, IsNext, Runnable, NeedsRework
<1>4. QED
  BY <1>1, <1>2, <1>3, PTL DEF DriverSpec, NoDoubleRun

-----------------------------------------------------------------------------
(* Without work, done, review, block and handoff beside the driver:        *)
(* whatever humans command otherwise, the driver is the only one that      *)
(* holds a task.                                                           *)

OnlyDriverWorks == Commands \cap LongCommands = {}

\* What a re-opening, a redirect or a resumption as done would need.
Plain(r) == ~r.reopened /\ r.call # "open" /\ r.from # "done"

\* What the driver is at has its dependencies done and is not done itself, nor is the copy
\* it is about to write.
Steady ==
    /\ \A s \in Sessions \ {Clock} : phase[s] = "idle"
    /\ \A t \in Tasks : Plain(disk[t])
    /\ phase[Clock] # "idle" => DepsSatisfied(on[Clock]) /\ disk[on[Clock]].state # "done"
    /\ phase[Clock] \in {"posting", "handoff"} =>
          Plain(snap[Clock]) /\ snap[Clock].state # "done"

LEMMA HumanIsShort ==
  ASSUME OnlyDriverWorks, Steady, Human
  PROVE  \E t \in Tasks : ShortHandler(t)
<1>1. ASSUME NEW s \in Sessions \ {Clock}, LongHandler(s) PROVE FALSE
  <2>1. phase[s] = "idle" /\ \A c \in {"work", "done", "review", "block", "handoff"} : c \notin Commands
    BY DEF Steady, OnlyDriverWorks, LongCommands
  <2>2. QED
    BY <1>1, <2>1 DEF LongHandler, WorkAlreadyVerified, WorkBegin, DoneBegin, ReviewBegin, BlockBegin,
       HandoffBegin, WorkExecuted, WorkVerified, DoneEnd, ReviewEnd, HandoffEnd, Refuse, May
<1>2. QED
  BY <1>1 DEF Human

\* The commands of humans complete nothing and take no completion back.
LEMMA HumansCompleteNothing ==
  ASSUME TypeOK, Steady, OnlyDriverWorks, Human
  PROVE  /\ UNCHANGED <<phase, on, snap>>
         /\ \A u \in Tasks : disk'[u].state = "done" <=> disk[u].state = "done"
         /\ \A u \in Tasks : Plain(disk'[u])
<1>1. PICK t \in Tasks : ShortHandler(t)
  BY HumanIsShort
<1>2. /\ UNCHANGED <<phase, on, snap>>
      /\ \A u \in Tasks : u # t => disk'[u] = disk[u]
      /\ Steered(t, disk[t], disk'[t])
  BY <1>1, ShortHandlerSteers
<1>3. QED
  BY <1>2 DEF Steered, Steady, Plain

\* A step of the driver that is about task t leaves the others; it completes t only when
\* that has its dependencies done, and takes no completion back.
LEMMA DriverCompletesInOrder ==
  ASSUME TypeOK, SessionsConsistent, Steady, DriverStep
  PROVE  /\ Steady'
         /\ \A u \in Tasks : disk[u].state = "done" => disk'[u].state = "done"
         /\ \A u \in Tasks : disk'[u].state = "done" => disk[u].state = "done" \/ DepsSatisfied(u)
<1> DEFINE InOrder == /\ Steady'
                      /\ \A u \in Tasks : disk[u].state = "done" => disk'[u].state = "done"
                      /\ \A u \in Tasks : disk'[u].state = "done" =>
                            disk[u].state = "done" \/ DepsSatisfied(u)
<1>0. /\ Clock \in Sessions /\ \A t \in Tasks : disk[t] \in Record /\ After[t] \subseteq Tasks
      /\ phase[Clock] # "idle" => on[Clock] \in Tasks
  BY DriverAssumption DEF TypeOK, SessionsConsistent
<1>1. CASE Halts
  BY <1>0, <1>1 DEF Halts, Steady, DepsSatisfied
<1>2. CASE Waits
  <2>1. \A r \in Record : Fresh(on[Clock], r) => Plain(r) /\ r.state # "done"
    BY <1>0, <1>2 DEF Waits, Fresh, Steady, Plain
  <2>2. /\ phase'[Clock] \in {"posting", "handoff"} => Plain(snap'[Clock]) /\ snap'[Clock].state # "done"
        /\ \A s \in Sessions \ {Clock} : phase'[s] = phase[s]
    BY <1>0, <1>2, <2>1 DEF Waits, TypeOK
  <2>3. QED
    BY <1>0, <1>2, <2>2 DEF Waits, Steady, DepsSatisfied
<1>3. ASSUME NEW t \in Tasks, DepsSatisfied(t), disk[t].state # "done",
             NEW x, Upsert(t, x), Plain(x), x.state # "done", NEW f, Begin(Clock, t, x, f)
      PROVE  InOrder
  <2>1. disk'[t] = x /\ \A u \in Tasks : u # t => disk'[u] = disk[u]
    BY <1>3 DEF Upsert, TypeOK
  <2>2. /\ on'[Clock] = t /\ snap'[Clock] = x
        /\ \A s \in Sessions \ {Clock} : phase'[s] = phase[s]
    BY <1>0, <1>3 DEF Begin, TypeOK
  <2>3. /\ \A u \in Tasks : Plain(disk'[u])
        /\ \A u \in Tasks : disk'[u].state = "done" <=> disk[u].state = "done"
    BY <1>3, <2>1 DEF Steady
  <2>4. \A u \in Tasks : DepsSatisfied(u) => DepsSatisfied(u)'
    BY <1>0, <2>3 DEF DepsSatisfied
  <2>5. QED
    BY <1>3, <2>1, <2>2, <2>3, <2>4 DEF Steady
<1>4. ASSUME NEW t \in Tasks, DepsSatisfied(t), disk[t].state # "done",
             NEW x, Upsert(t, x), Plain(x), End(Clock)
      PROVE  InOrder
  <2>1. disk'[t] = x /\ \A u \in Tasks : u # t => disk'[u] = disk[u]
    BY <1>4 DEF Upsert, TypeOK
  <2>2. \A s \in Sessions : phase'[s] = "idle"
    BY <1>0, <1>4 DEF End, Steady, TypeOK
  <2>3. QED
    BY <1>0, <1>4, <2>1, <2>2 DEF Steady
<1>5. \A t \in Tasks : Runnable(t) => DepsSatisfied(t) /\ disk[t].state # "done"
  BY DEF Runnable, NeedsRework, Steady, Plain
<1>6. ASSUME NEW t \in Tasks, NEW r \in Record, AtHand(t, r), t = on[Clock] \/ r = disk[t],
             Parks(t) \/ Finishes(t)
      PROVE  /\ ~r.reopened /\ r.call # "open" /\ r.from # "done"
             /\ Parks(t) => r.state # "done"
  BY <1>5, <1>6 DEF AtHand, Parks, Finishes, Steady, Plain
<1>7. ASSUME NEW t \in Tasks, TakesUp(t) PROVE InOrder
  <2> DEFINE x == Started(disk[t])
  <2>1. Plain(x) /\ x.state # "done"
    BY <1>0 DEF Started, Record, Steady, Plain
  <2>2. Upsert(t, x) /\ Begin(Clock, t, x, "executor") /\ Runnable(t)
    BY <1>7 DEF TakesUp
  <2> HIDE DEF x, InOrder
  <2>3. QED
    BY <1>3, <1>5, <2>1, <2>2
<1>8. ASSUME NEW t \in Tasks, Parks(t) PROVE InOrder
  <2>1. PICK r \in Record, needs \in Needs :
           /\ AtHand(t, r) /\ Upsert(t, BlockedFor(r, needs))
           /\ Begin(Clock, t, BlockedFor(r, needs), "handoff")
    BY <1>8 DEF Parks
  <2>2. t = on[Clock] \/ r = disk[t]
    BY <1>8, <2>1 DEF Parks, AtHand
  <2>3. DepsSatisfied(t) /\ disk[t].state # "done"
    BY <1>5, <1>8 DEF Parks, Steady
  <2> DEFINE x == BlockedFor(r, needs)
  <2>4. Plain(x) /\ x.state # "done"
    BY <1>6, <1>8, <2>1, <2>2, BlockedForParks DEF Plain
  <2>5. Upsert(t, x) /\ Begin(Clock, t, x, "handoff")
    BY <2>1
  <2> HIDE DEF x, InOrder
  <2>6. QED
    BY <1>3, <2>3, <2>4, <2>5
<1>9. ASSUME NEW t \in Tasks, Tells(t) PROVE InOrder
  <2>1. DepsSatisfied(t) /\ disk[t].state # "done" /\ Plain(snap[Clock])
    BY <1>9 DEF Tells, Steady
  <2> HIDE DEF InOrder
  <2>2. QED
    BY <1>4, <1>9, <2>1 DEF Tells
<1>10. ASSUME NEW t \in Tasks, Finishes(t) PROVE InOrder
  <2>1. PICK r \in Record : AtHand(t, r) /\ Upsert(t, [r EXCEPT !.state = "done"])
    BY <1>10 DEF Finishes
  <2>2. Plain([r EXCEPT !.state = "done"])
    BY <1>6, <1>10, <2>1 DEF Finishes, Plain, Record
  <2>3. DepsSatisfied(t) /\ disk[t].state # "done" /\ End(Clock)
    BY <1>10 DEF Finishes, Steady
  <2> HIDE DEF InOrder
  <2>4. QED
    BY <1>4, <2>1, <2>2, <2>3
<1>11. QED
  BY <1>1, <1>2, <1>7, <1>8, <1>9, <1>10, DriverSteps DEF Halts, Waits

SteadyInv == DriverInv /\ Steady

LEMMA SteadyInit == DriverInit => SteadyInv
<1>1. DriverInit => Steady
  BY DriverAssumption DEF DriverInit, Init, Steady, Plain, Created
<1>2. QED
  BY <1>1, DriverInitTyped DEF SteadyInv

LEMMA SteadyNext ==
  ASSUME OnlyDriverWorks
  PROVE  SteadyInv /\ [DriverNext]_driverVars => SteadyInv'
<1> SUFFICES ASSUME SteadyInv, [DriverNext]_driverVars PROVE Steady'
  BY DriverNextTyped DEF SteadyInv
<1> USE DEF SteadyInv, DriverInv, DriverTypeOK
<1>1. CASE DriverStep
  BY <1>1, DriverCompletesInOrder
<1>2. CASE Human
  <2>1. /\ UNCHANGED <<phase, on, snap>>
        /\ \A u \in Tasks : disk'[u].state = "done" <=> disk[u].state = "done"
        /\ \A u \in Tasks : Plain(disk'[u])
    BY <1>2, HumansCompleteNothing
  <2>2. phase[Clock] # "idle" => on[Clock] \in Tasks /\ After[on[Clock]] \subseteq Tasks
    BY DriverAssumption DEF TypeOK, SessionsConsistent
  <2>3. QED
    BY <2>1, <2>2 DEF Steady, DepsSatisfied
<1>3. CASE Run \/ UNCHANGED driverVars
  BY <1>3 DEF Run, driverVars, driver, vars, Steady, DepsSatisfied
<1>4. QED
  BY <1>1, <1>2, <1>3 DEF DriverNext

\* Without work, done, review, block and handoff beside the driver, a task is completed only
\* after every task it depends on, and these stay completed: a chain is completed in its
\* order, however humans start, resume, answer and amend the tasks meanwhile, and though the
\* driver twice writes a copy it read before a subprocess.
THEOREM DependenciesComeFirst ==
  ASSUME OnlyDriverWorks
  PROVE  DriverSpec => []DoneAfterDeps
<1>1. DriverInit => DoneAfterDeps
  BY DEF DriverInit, Init, DoneAfterDeps, Created
<1>2. SteadyInv /\ DoneAfterDeps /\ [DriverNext]_driverVars => DoneAfterDeps'
  <2> SUFFICES ASSUME SteadyInv, DoneAfterDeps, [DriverNext]_driverVars PROVE DoneAfterDeps'
    OBVIOUS
  <2> USE DEF SteadyInv, DriverInv, DriverTypeOK
  <2>0. \A t \in Tasks : After[t] \subseteq Tasks
    BY DriverAssumption
  <2>1. CASE DriverStep
    BY <2>0, <2>1, DriverCompletesInOrder DEF DoneAfterDeps, DepsSatisfied
  <2>2. CASE Human
    BY <2>0, <2>2, HumansCompleteNothing DEF DoneAfterDeps, DepsSatisfied
  <2>3. CASE Run \/ UNCHANGED driverVars
    BY <2>3 DEF Run, driverVars, driver, vars, DoneAfterDeps, DepsSatisfied
  <2>4. QED
    BY <2>1, <2>2, <2>3 DEF DriverNext
<1>3. QED
  BY <1>1, <1>2, SteadyInit, SteadyNext, PTL DEF DriverSpec

-----------------------------------------------------------------------------
(* What is left when a run ends with an empty queue.                       *)

\* A task handed to the driver is ready, parked or done: nothing but the driver puts a
\* task in progress.
Drainable == \A t \in owed : disk[t].state \in {"specd", "blocked", "done"}

LEMMA DriverDrains ==
  ASSUME DriverTypeOK, SessionsConsistent, ParkedCopy, Drainable, DriverStep
  PROVE  Drainable'
<1>1. CASE Halts \/ Waits
  BY <1>1 DEF Halts, Waits, Drainable
<1>2. ASSUME NEW t \in Tasks, NEW x, Upsert(t, x), owed' \subseteq owed,
             t \notin owed' \/ x.state \in {"blocked", "done"}
      PROVE  Drainable'
  BY <1>2 DEF Upsert, TypeOK, DriverTypeOK, Drainable
<1>3. ASSUME NEW t \in Tasks, TakesUp(t) PROVE Drainable'
  BY <1>2, <1>3 DEF TakesUp
<1>4. ASSUME NEW t \in Tasks, Parks(t) PROVE Drainable'
  <2>1. PICK r \in Record, needs \in Needs : Upsert(t, BlockedFor(r, needs))
    BY <1>4 DEF Parks
  <2>2. BlockedFor(r, needs).state = "blocked" /\ UNCHANGED owed
    BY <1>4, BlockedForParks DEF Parks
  <2>3. QED
    BY <1>2, <2>1, <2>2
<1>5. ASSUME NEW t \in Tasks, Tells(t) PROVE Drainable'
  BY <1>2, <1>5 DEF Tells, ParkedCopy
<1>6. ASSUME NEW t \in Tasks, Finishes(t) PROVE Drainable'
  <2>1. PICK r \in Record : Upsert(t, [r EXCEPT !.state = "done"])
    BY <1>6 DEF Finishes
  <2>2. [r EXCEPT !.state = "done"].state = "done" /\ UNCHANGED owed
    BY <1>6 DEF Finishes, Record
  <2>3. QED
    BY <1>2, <2>1, <2>2
<1>7. QED
  BY <1>1, <1>3, <1>4, <1>5, <1>6, DriverSteps DEF DriverTypeOK

LEMMA HumansDrain ==
  ASSUME HandsOff, OnlyDriverWorks, SteadyInv, Drainable, Human
  PROVE  Drainable'
<1> USE DEF SteadyInv, DriverInv, DriverTypeOK
<1>1. PICK t \in Tasks : ShortHandler(t)
  BY HumanIsShort
<1>2. /\ \A u \in Tasks : u # t => disk'[u] = disk[u]
      /\ Steered(t, disk[t], disk'[t])
  BY <1>1, ShortHandlerSteers
<1>3. disk[t].call # "open" /\ ~disk[t].reopened
  BY DEF Steady, Plain
<1>4. ASSUME NEW u \in owed' PROVE disk'[u].state \in {"specd", "blocked", "done"}
  <2>1. u \in Tasks /\ (u \in owed \/ HandedBack(disk[u], disk'[u]))
    BY <1>4 DEF Human
  <2>2. CASE u # t
    BY <1>2, <1>3, <2>1, <2>2 DEF HandedBack, Drainable
  <2>3. CASE u = t
    BY <1>2, <1>3, <2>1, <2>3 DEF HandedBack, Drainable, Steered
  <2>4. QED
    BY <2>2, <2>3
<1>5. QED
  BY <1>4 DEF Drainable

\* When humans only specify, align and amend and executors raise forks, a run that
\* ends because nothing is runnable leaves no task it was handed, but for those parked, done
\* or waiting for another: neither the order of the queue nor a park in the middle hides one.
THEOREM RunsDrainTheQueue ==
  ASSUME HandsOff, OnlyDriverWorks
  PROVE  DriverSpec => QueueDrained
<1> DEFINE DrainInv == SteadyInv /\ ParkedCopy /\ Drainable
<1>1. DriverInit => DrainInv
  BY SteadyInit, DriverAssumption DEF DriverInit, Init, ParkedCopy, Drainable
<1>2. DrainInv /\ [DriverNext]_driverVars => DrainInv'
  <2> SUFFICES ASSUME DrainInv, [DriverNext]_driverVars PROVE ParkedCopy' /\ Drainable'
    BY SteadyNext
  <2>1. CASE DriverStep
    BY <2>1, DriverDrains, DriverKeepsParkedCopy DEF SteadyInv, DriverInv, DriverTypeOK
  <2>2. CASE Human
    BY <2>2, HumansDrain, HumansLeaveTheClock DEF SteadyInv, DriverInv, DriverTypeOK, ParkedCopy
  <2>3. CASE Run \/ UNCHANGED driverVars
    BY <2>3 DEF Run, driverVars, driver, vars, Drainable, ParkedCopy
  <2>4. QED
    BY <2>1, <2>2, <2>3 DEF DriverNext
<1>3. DrainInv =>
        [StopEmpty =>
            \A t \in owed : disk[t].state \in {"blocked", "done"} \/ ~DepsSatisfied(t)]_driverVars
  BY DEF SteadyInv, DriverInv, DriverTypeOK, Drainable, StopEmpty, Runnable
<1>4. QED
  BY <1>1, <1>2, <1>3, PTL DEF DriverSpec, QueueDrained

-----------------------------------------------------------------------------
(* The director's corrections.                                             *)

\* A command that is one step keeps the record and the history of corrections together,
\* whichever handler it overlaps.
LEMMA ShortKeepsNotes ==
  ASSUME TypeOK, Steady, CorrectionsSurvive, NEW t \in Tasks, ShortHandler(t)
  PROVE  CorrectionsSurvive'
<1> DEFINE r == disk[t]
<1>0. /\ r \in Record /\ r.note \in [Notes -> NoteStatus] /\ r.note = issued[t]
      /\ Marked(r) /\ file[t] \in Revisions
  BY DEF TypeOK, CorrectionsSurvive, Steady, Plain, Record, Marked, ReopenedHasDirective
<1>1. ASSUME NEW x, Upsert(t, x), x.note = issued[t], UNCHANGED issued
      PROVE  CorrectionsSurvive'
  BY <1>1 DEF CorrectionsSurvive, TypeOK, Upsert
<1>2. ASSUME NEW x, Upsert(t, x), NEW n \in Notes, NEW v, Issue(t, n, v),
             x.note = [r.note EXCEPT ![n] = v]
      PROVE  CorrectionsSurvive'
  BY <1>0, <1>2 DEF CorrectionsSurvive, TypeOK, Upsert, Issue
<1> HIDE DEF r
<1>3. CASE Spec(t)
  <2>1. PICK c \in BOOLEAN, l \in SUBSET Revisions : Upsert(t, Specced(r, c, l))
    BY <1>3, SpecWrites DEF r
  <2>2. UNCHANGED issued
    BY <1>3, SpecWrites DEF history
  <2>3. QED
    BY <1>0, <1>1, <2>1, <2>2, SpeccedKeeps
<1>4. CASE Align(t)
  BY <1>0, <1>1, <1>4, SimpleOpsKeep DEF Align, history, r
<1>5. CASE Start(t)
  BY <1>0, <1>1, <1>5, SimpleOpsKeep DEF Start, history, r
<1>7. CASE Unblock(t)
  <2>1. Restored(r, "specd").note = r.note
    BY <1>0 DEF Restored, Record
  <2>2. QED
    BY <1>0, <1>1, <1>7, <2>1 DEF Unblock, Unblocked, history, r
<1>8. CASE EditTest(t)
  BY <1>8 DEF EditTest, history, CorrectionsSurvive
<1>9. CASE AmendSpec(t)
  BY <1>0, <1>1, <1>9, AmendedKeeps DEF AmendSpec, history, r
<1>10. CASE Raise(t)
  <2>1. PICK n \in Notes : Upsert(t, Raised(r, n)) /\ Issue(t, n, "raised")
    BY <1>10 DEF Raise, r
  <2>2. Raised(r, n).note = [r.note EXCEPT ![n] = "raised"]
    BY <1>0, NoteOpsKeep
  <2>3. QED
    BY <1>2, <2>1, <2>2
<1>11. CASE Answer(t)
  <2>1. PICK n \in OpenRaises(r) : Upsert(t, Answered(r, n)) /\ Issue(t, n, "directed")
    BY <1>11 DEF Answer, r
  <2>2. n \in Notes /\ Answered(r, n).note = [r.note EXCEPT ![n] = "directed"]
    BY <1>0, <2>1, NoteOpsKeep DEF OpenRaises
  <2>3. QED
    BY <1>2, <2>1, <2>2
<1>12. CASE Accept(t)
  BY <1>0, <1>1, <1>12, SimpleOpsKeep DEF Accept, history, r
<1>13. CASE Redirect(t)
  <2>1. PICK n \in Notes : Upsert(t, Redirected(r, n)) /\ Issue(t, n, "directed")
    BY <1>13 DEF Redirect, r
  <2>2. Redirected(r, n).note = [r.note EXCEPT ![n] = "directed"]
    BY <1>0, NoteOpsKeep
  <2>3. QED
    BY <1>2, <2>1, <2>2
<1>14. QED
  BY <1>3, <1>4, <1>5, <1>7, <1>8, <1>9, <1>10, <1>11, <1>12, <1>13 DEF ShortHandler

\* No correction is made of a task while the driver posts the verdict on it or tells of it.
NoCorrectionWhileTelling ==
    Overlaps \cap ({"raise", "answer", "redirect"} \X {"posting", "handoff"}) = {}

\* The copy that is about to be written has the corrections of the task.
CopyHasNotes ==
    phase[Clock] \in {"posting", "handoff"} => snap[Clock].note = disk[on[Clock]].note

LEMMA DriverKeepsNotes ==
  ASSUME TypeOK, SessionsConsistent, CorrectionsSurvive, CopyHasNotes, DriverStep
  PROVE  CorrectionsSurvive' /\ CopyHasNotes'
<1> DEFINE Kept == CorrectionsSurvive' /\ CopyHasNotes'
<1>0. Clock \in Sessions /\ (phase[Clock] # "idle" => on[Clock] \in Tasks)
      /\ \A t \in Tasks : disk[t] \in Record
  BY DriverAssumption DEF TypeOK, SessionsConsistent
<1>1. CASE Halts
  BY <1>1 DEF Halts, CorrectionsSurvive, CopyHasNotes
<1>2. CASE Waits
  BY <1>0, <1>2 DEF Waits, Fresh, CorrectionsSurvive, CopyHasNotes, TypeOK
<1>3. ASSUME NEW t \in Tasks, NEW x, Upsert(t, x), x.note = disk[t].note, UNCHANGED issued,
             End(Clock) \/ \E f : Begin(Clock, t, x, f)
      PROVE  Kept
  <2>1. CorrectionsSurvive' /\ disk'[t] = x
    BY <1>3 DEF CorrectionsSurvive, TypeOK, Upsert
  <2>2. CASE End(Clock)
    BY <1>0, <2>1, <2>2 DEF End, CopyHasNotes, TypeOK
  <2>3. ASSUME NEW f, Begin(Clock, t, x, f) PROVE CopyHasNotes'
    BY <1>0, <2>1, <2>3 DEF Begin, CopyHasNotes, TypeOK
  <2>4. QED
    BY <1>3, <2>1, <2>2, <2>3
<1>4. ASSUME NEW t \in Tasks, TakesUp(t) PROVE Kept
  <2>1. Started(disk[t]).note = disk[t].note
    BY <1>0 DEF Started, Record
  <2> HIDE DEF Kept
  <2>2. QED
    BY <1>3, <1>4, <2>1 DEF TakesUp
<1>5. ASSUME NEW t \in Tasks, NEW r \in Record, AtHand(t, r), phase[Clock] = "idle" \/ t = on[Clock]
      PROVE  r.note = disk[t].note
  BY <1>5 DEF AtHand, CopyHasNotes
<1>6. ASSUME NEW t \in Tasks, Parks(t) PROVE Kept
  <2>1. PICK r \in Record, needs \in Needs :
           /\ AtHand(t, r) /\ Upsert(t, BlockedFor(r, needs))
           /\ Begin(Clock, t, BlockedFor(r, needs), "handoff")
    BY <1>6 DEF Parks
  <2>2. BlockedFor(r, needs).note = disk[t].note
    BY <1>5, <1>6, <2>1, BlockedForParks DEF Parks
  <2> HIDE DEF Kept
  <2>3. QED
    BY <1>3, <1>6, <2>1, <2>2 DEF Parks
<1>7. ASSUME NEW t \in Tasks, Tells(t) PROVE Kept
  BY <1>3, <1>7 DEF Tells, CopyHasNotes
<1>8. ASSUME NEW t \in Tasks, Finishes(t) PROVE Kept
  <2>1. PICK r \in Record : AtHand(t, r) /\ Upsert(t, [r EXCEPT !.state = "done"])
    BY <1>8 DEF Finishes
  <2>2. [r EXCEPT !.state = "done"].note = disk[t].note
    BY <1>5, <1>8, <2>1 DEF Finishes, Record
  <2> HIDE DEF Kept
  <2>3. QED
    BY <1>3, <1>8, <2>1, <2>2 DEF Finishes
<1>9. QED
  BY <1>1, <1>2, <1>4, <1>6, <1>7, <1>8, DriverSteps

\* The commands that make no correction leave those of the task; those that do are not
\* issued while the driver tells of it.
LEMMA ShortKeepsCopy ==
  ASSUME NoCorrectionWhileTelling, TypeOK, SessionsConsistent, CorrectionsSurvive, CopyHasNotes,
         NEW t \in Tasks, ShortHandler(t), CorrectionsSurvive'
  PROVE  CopyHasNotes'
<1>0. /\ Clock \in Sessions /\ UNCHANGED <<phase, on, snap>>
      /\ phase[Clock] # "idle" => on[Clock] \in Tasks
      /\ \A u \in Tasks : u # t => disk'[u] = disk[u]
  BY ShortHandlerSteers, DriverAssumption DEF SessionsConsistent, TypeOK
<1>1. CASE phase[Clock] \notin {"posting", "handoff"} \/ on[Clock] # t
  BY <1>0, <1>1 DEF CopyHasNotes
<1>2. CASE phase[Clock] \in {"posting", "handoff"} /\ on[Clock] = t
  <2>1. ASSUME NEW c \in {"raise", "answer", "redirect"} PROVE ~May(c, t)
    <3>1. <<c, phase[Clock]>> \notin Overlaps
      BY <1>2 DEF NoCorrectionWhileTelling
    <3>2. QED
      BY <1>0, <1>2, <3>1 DEF May
  <2>2. UNCHANGED issued
    BY <2>1, SpecWrites DEF ShortHandler, Align, Start, Unblock, EditTest, AmendSpec, Raise, Answer,
       Accept, Redirect, history
  <2>3. disk'[t].note = disk[t].note
    BY <2>2 DEF CorrectionsSurvive
  <2>4. QED
    BY <1>0, <1>2, <2>3 DEF CopyHasNotes
<1>3. QED
  BY <1>1, <1>2

\* The driver loses no raise, no answer and no redirect that is made while its executor, its
\* checks or its reviewer run: it keeps no copy of the record across these.  It keeps one
\* while it posts a verdict to a pull request and while an agent tells of a parked task: a
\* correction made then is lost, and the theorem asks that none is.  (A session of chalk
\* work, done, review or block that overlaps a correction loses it as well.)
THEOREM DriverKeepsCorrections ==
  ASSUME OnlyDriverWorks, NoCorrectionWhileTelling
  PROVE  DriverSpec => []CorrectionsSurvive
<1> DEFINE NotesInv == SteadyInv /\ CorrectionsSurvive /\ CopyHasNotes
<1>1. DriverInit => NotesInv
  BY SteadyInit, DriverAssumption DEF DriverInit, Init, CorrectionsSurvive, CopyHasNotes
<1>2. NotesInv /\ [DriverNext]_driverVars => NotesInv'
  <2> SUFFICES ASSUME NotesInv, [DriverNext]_driverVars
               PROVE  CorrectionsSurvive' /\ CopyHasNotes'
    BY SteadyNext
  <2> USE DEF SteadyInv, DriverInv, DriverTypeOK
  <2>1. CASE DriverStep
    BY <2>1, DriverKeepsNotes
  <2>2. CASE Human
    BY <2>2, HumanIsShort, ShortKeepsNotes, ShortKeepsCopy
  <2>3. CASE Run \/ UNCHANGED driverVars
    BY <2>3 DEF Run, driverVars, driver, vars, CorrectionsSurvive, CopyHasNotes
  <2>4. QED
    BY <2>1, <2>2, <2>3 DEF DriverNext
<1>3. QED
  BY <1>1, <1>2, PTL DEF DriverSpec
=============================================================================
