------------------------------- MODULE Driver --------------------------------
(***************************************************************************)
(* chalk run: the loop of lib/run.mjs over the spine of TaskLifecycle.     *)
(*                                                                         *)
(* The driver is a session of its own.  It takes the first runnable task,  *)
(* puts it in progress and runs the executor; then it re-reads the task    *)
(* before each gate.  Two writes are of a copy read before a subprocess:   *)
(* the verdict of a review, written after it was posted to the task's pull *)
(* request, and the handoff of a parked task, written after the agent that *)
(* tells of it.  Humans use the commands of TaskLifecycle meanwhile.       *)
(***************************************************************************)
EXTENDS TaskLifecycle, Sequences

CONSTANTS
    Clock,        \* the session that runs the driver
    Queue,        \* the tasks in the order of tasks.json
    After,        \* After[t]: the tasks t depends on (task.after)
    MaxIter,      \* --max
    MaxRuns,      \* bound: runs of `chalk run`
    UntilBlocked  \* --until blocked

ASSUME DriverAssumption ==
    /\ Clock \in Sessions
    /\ Queue \in Seq(Tasks) /\ \A t \in Tasks : \E i \in DOMAIN Queue : Queue[i] = t
    /\ After \in [Tasks -> SUBSET Tasks]
    /\ MaxIter \in Nat \ {0} /\ MaxRuns \in Nat
    /\ UntilBlocked \in BOOLEAN

VARIABLES
    iterations, \* tasks picked in this run
    stopped,    \* why the run has stopped, "none" while it goes on
    runs,       \* runs started
    owed        \* history: tasks handed to the driver and not executed since

driver == <<iterations, stopped, runs, owed>>
driverVars == <<vars, driver>>

Stops == {"none", "empty", "blocked", "max"}

DriverTypeOK ==
    /\ TypeOK
    /\ iterations \in 0..MaxIter
    /\ stopped \in Stops
    /\ runs \in 0..MaxRuns
    /\ owed \subseteq Tasks

DriverInit ==
    /\ Init
    /\ iterations = 0
    /\ stopped = "empty"
    /\ runs = 0
    /\ owed = {}

-----------------------------------------------------------------------------

\* depsSatisfied
DepsSatisfied(t) == \A d \in After[t] : disk[d].state = "done"

\* Mutant: the dependencies are asked of re-opened tasks only (a precedence slip).
RunnableSlip(t) ==
    disk[t].state = "specd" \/ (NeedsRework(disk[t]) /\ DepsSatisfied(t))

\* runnableTasks: specified tasks, and re-opened ones that wait for rework.
Runnable(t) ==
    (disk[t].state = "specd" \/ NeedsRework(disk[t])) /\ DepsSatisfied(t)

\* runnableTasks(store.tasks())[0]
IsNext(t) ==
    \E i \in DOMAIN Queue :
        /\ Queue[i] = t /\ Runnable(t)
        /\ \A j \in 1..(i - 1) : ~Runnable(Queue[j])

Looping == stopped = "none" /\ phase[Clock] = "idle"

\* A human starts chalk run.
Run ==
    /\ stopped # "none" /\ runs < MaxRuns
    /\ iterations' = 0
    /\ stopped' = "none"
    /\ runs' = runs + 1
    /\ UNCHANGED <<vars, owed>>

\* Mutant: the run ends when the first task of the file is not runnable.
StopAtFirst ==
    /\ Looping /\ iterations < MaxIter
    /\ ~Runnable(Queue[1])
    /\ stopped' = "empty"
    /\ UNCHANGED <<vars, iterations, runs, owed>>

StopEmpty ==
    /\ Looping /\ iterations < MaxIter
    /\ \A t \in Tasks : ~Runnable(t)
    /\ stopped' = "empty"
    /\ UNCHANGED <<vars, iterations, runs, owed>>

StopMax ==
    /\ Looping /\ iterations = MaxIter
    /\ stopped' = "max"
    /\ UNCHANGED <<vars, iterations, runs, owed>>

\* Mutant: a pick that does not count against --max.
PickUncounted(t) ==
    /\ Looping /\ iterations < MaxIter
    /\ IsNext(t) /\ ~CriteriaAcceptedRequired(disk[t])
    /\ iterations' = iterations
    /\ Upsert(t, Started(disk[t]))
    /\ Begin(Clock, t, Started(disk[t]), "executor")
    /\ owed' = owed \ {t}
    /\ UNCHANGED <<file, history, stopped, runs>>

\* The next task is put in progress and its executor is run.
Pick(t) ==
    /\ Looping /\ iterations < MaxIter
    /\ IsNext(t) /\ ~CriteriaAcceptedRequired(disk[t])
    /\ iterations' = iterations + 1
    /\ Upsert(t, Started(disk[t]))
    /\ Begin(Clock, t, Started(disk[t]), "executor")
    /\ owed' = owed \ {t}
    /\ UNCHANGED <<file, history, stopped, runs>>

\* blockTask on the record `r` just read, whatever its state; writeHandoff follows.
Park(t, r, needs) ==
    /\ Upsert(t, BlockedFor(r, needs))
    /\ Begin(Clock, t, BlockedFor(r, needs), "handoff")
    /\ reblocked' = IF r.state = "blocked" THEN reblocked \cup {t} ELSE reblocked
    /\ UNCHANGED <<file, issued, overrides, stopped, runs, owed>>

\* The handoff is told and the copy of the parked record written again; the
\* iteration ends.
HandedOff ==
    /\ phase[Clock] = "handoff"
    /\ Upsert(on[Clock], snap[Clock])
    /\ stopped' = IF UntilBlocked THEN "blocked" ELSE "none"
    /\ End(Clock)
    /\ UNCHANGED <<file, history, iterations, runs, owed>>

\* The director has not accepted the criteria: the task is parked before anything
\* is built.
ParkUnaligned(t) ==
    /\ Looping /\ iterations < MaxIter
    /\ IsNext(t) /\ CriteriaAcceptedRequired(disk[t])
    /\ iterations' = iterations + 1
    /\ Park(t, disk[t], "human-input")
    /\ UNCHANGED judged

\* The executor has raised a fork: the task waits for the director's decision.
ParkOnRaise ==
    LET t == on[Clock] IN
    /\ phase[Clock] = "executor"
    /\ OpenRaises(disk[t]) # {}
    /\ Park(t, disk[t], "decision")
    /\ UNCHANGED <<judged, iterations>>

Executed ==
    /\ phase[Clock] = "executor"
    /\ OpenRaises(disk[on[Clock]]) = {}
    /\ phase' = [phase EXCEPT ![Clock] = "checks"]
    /\ UNCHANGED <<disk, file, on, snap, history, driver>>

\* Verify is red, or a probe says the tests are vacuous.
ParkOnRed ==
    /\ phase[Clock] = "checks"
    /\ Park(on[Clock], disk[on[Clock]], "human-input")
    /\ UNCHANGED <<judged, iterations>>

\* The task is completed: its state is all that is written.
Complete(t, r) ==
    /\ Upsert(t, [r EXCEPT !.state = "done"])
    /\ overrides' = overrides \ {t}
    /\ End(Clock)
    /\ UNCHANGED <<file, issued, reblocked, iterations, stopped, runs, owed>>

CompleteUnreviewed ==
    /\ phase[Clock] = "checks" /\ ~ReviewRequired(on[Clock])
    /\ IntegrityGreen
    /\ Complete(on[Clock], disk[on[Clock]])
    /\ UNCHANGED judged

\* The reviewer is given the task as it is now.
SendToReview ==
    /\ phase[Clock] = "checks" /\ ReviewRequired(on[Clock])
    /\ IntegrityGreen
    /\ phase' = [phase EXCEPT ![Clock] = "review"]
    /\ snap' = [snap EXCEPT ![Clock] = disk[on[Clock]]]
    /\ UNCHANGED <<disk, file, on, history, driver>>

\* The review the driver records has the verdict and the findings, and never a
\* judgment call.
RecordedVerdict(t, verdict) ==
    [disk[t] EXCEPT !.verdict = verdict, !.call = "none"]

\* The reviewer returned a verdict: it is added to the task as it is now, and posted
\* to the task's pull request if there is one.
ReviewReturned(verdict) ==
    LET t == on[Clock] IN
    /\ phase[Clock] = "review"
    /\ phase' = [phase EXCEPT ![Clock] = "posting"]
    /\ snap' = [snap EXCEPT ![Clock] = RecordedVerdict(t, verdict)]
    /\ judged' = IF verdict = "pass"
                 THEN [judged EXCEPT ![t] = snap[Clock].tests] ELSE judged
    /\ UNCHANGED <<disk, file, on, issued, overrides, reblocked, driver>>

\* The copy with the verdict is written, read again and completed or parked.
ReviewPassed ==
    /\ phase[Clock] = "posting" /\ snap[Clock].verdict = "pass"
    /\ Complete(on[Clock], snap[Clock])
    /\ UNCHANGED judged

ReviewBlocked ==
    /\ phase[Clock] = "posting" /\ snap[Clock].verdict = "block"
    /\ Park(on[Clock], snap[Clock], "review")
    /\ UNCHANGED <<judged, iterations>>

\* The reviewer gave no valid verdict.
ReviewFailed ==
    /\ phase[Clock] = "review"
    /\ Park(on[Clock], disk[on[Clock]], "human-input")
    /\ UNCHANGED <<judged, iterations>>

-----------------------------------------------------------------------------

\* A human step that makes a task ready, lets a parked one go on or re-opens a
\* done one hands it to the next run; the executor of chalk work counts as one.
HandedBack(r, s) ==
    \/ s.state = "specd" /\ r.state # "specd"
    \/ s.state = "in-progress" /\ r.state = "blocked"
    \/ s.reopened /\ ~r.reopened

Human ==
    /\ \/ \E t \in Tasks : ShortHandler(t)
       \/ \E s \in Sessions \ {Clock} : LongHandler(s)
    /\ owed' = owed \cup {t \in Tasks : HandedBack(disk[t], disk'[t])}
    /\ UNCHANGED <<iterations, stopped, runs>>

DriverStep ==
    \/ StopEmpty \/ StopMax \/ (\E t \in Tasks : Pick(t) \/ ParkUnaligned(t))
    \/ ParkOnRaise \/ Executed \/ ParkOnRed \/ CompleteUnreviewed
    \/ SendToReview \/ (\E verdict \in {"pass", "block"} : ReviewReturned(verdict))
    \/ ReviewPassed \/ ReviewBlocked \/ ReviewFailed \/ HandedOff

DriverNext == Run \/ DriverStep \/ Human

DriverSpec == DriverInit /\ [][DriverNext]_driverVars

\* The driver goes on and the commands it runs return: every one of them is run
\* synchronously and ends or is killed by its timeout.
FairDriverSpec == DriverSpec /\ WF_driverVars(DriverStep)

-----------------------------------------------------------------------------

\* The driver executes a task only when it was handed to it since its last
\* execution: needsRework keys on reopenedAt so that a redirect on an active
\* task is not "re-admitted to the driver and double-executed".
NoDoubleRun ==
    [][\A t \in Tasks : Pick(t) => t \in owed]_driverVars

\* A task is completed only after every task it depends on.
DoneAfterDeps ==
    \A t \in Tasks : disk[t].state = "done" => DepsSatisfied(t)

\* A run that ends with an empty queue has executed every task handed to it that
\* is neither parked nor waiting for another.  It holds unattended; it does not
\* after an answer or an unblock, which put the task back in progress.
QueueDrained ==
    [][StopEmpty =>
          \A t \in owed : disk[t].state \in {"blocked", "done"} \/ ~DepsSatisfied(t)]_driverVars

\* chalk run ends, whatever humans do meanwhile: every pick counts against --max.
RunTerminates == stopped = "none" ~> stopped # "none"
=============================================================================
