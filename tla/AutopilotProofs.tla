---------------------------- MODULE AutopilotProofs ----------------------------
(***************************************************************************)
(* Proofs about Autopilot, for any runs, bounds and commands.              *)
(***************************************************************************)
EXTENDS Autopilot, SequenceTheorems, FiniteSetTheorems, WellFoundedInduction, TLAPS

-----------------------------------------------------------------------------
(* Types.                                                                  *)

\* A queue that is not empty has a first task.
LEMMA NextOfQueue ==
  ASSUME NEW p \in Runs, run[p].queue \in SUBSET Nat, run[p].queue # {}
  PROVE  NextOf(p) \in run[p].queue
<1>1. PICK k \in run[p].queue : \A j \in run[p].queue : ~ <<j, k>> \in OpToRel(<, Nat)
  BY NatLessThanWellFounded, WFMin
<1>2. \A j \in run[p].queue : k <= j
  <2>1. \A j, i \in Nat : j < i => <<j, i>> \in OpToRel(<, Nat)
    BY Zenon DEF OpToRel
  <2>2. k \in Nat /\ \A j \in run[p].queue : j \in Nat /\ ~(j < k)
    BY <1>1, <2>1
  <2>3. QED
    BY <2>2
<1>3. QED
  BY <1>2 DEF NextOf

LEMMA TasksAreASequence ==
  ASSUME TypeOK
  PROVE  DOMAIN tasks = 1..Len(tasks) /\ Len(tasks) \in Nat /\ \A k \in DOMAIN tasks : tasks[k] \in Task
BY LenProperties DEF TypeOK

\* A task that gets another state, or a test.
LEMMA TaskChanges ==
  ASSUME TypeOK, NEW k \in DOMAIN tasks, NEW t \in Task, tasks' = [tasks EXCEPT ![k] = t]
  PROVE  /\ tasks' \in Seq(Task) /\ Len(tasks') = Len(tasks) /\ DOMAIN tasks' = DOMAIN tasks
         /\ \A j \in DOMAIN tasks : tasks'[j] = IF j = k THEN t ELSE tasks[j]
BY ExceptSeq, LenProperties DEF TypeOK

\* What `chalk block` and humans make of a task is a task, of the same issue.
LEMMA ParkedIsATask ==
  ASSUME NEW t \in Task, NEW from \in States
  PROVE  /\ Parked(t, from) \in Task
         /\ Parked(t, from).issue = t.issue /\ Parked(t, from).tested = t.tested
         /\ Parked(t, from).criteria = t.criteria
         /\ t.state = "done" => Parked(t, from) = t
         /\ t.state # "done" => /\ Parked(t, from).state = "blocked"
                                /\ Parked(t, from).blockedFrom = from
BY DEF Parked, Task, States

LEMMA ChangedIsATask ==
  ASSUME NEW t \in Task, NEW c \in AllCommands
  PROVE  /\ Changed(t, c) \in Task /\ Changed(t, c).issue = t.issue
         /\ t.tested => Changed(t, c).tested
<1>1. t.state \in States
  BY DEF Task
<1>2. CASE c = "spec"
  BY <1>1, <1>2 DEF Changed, Task, States
<1>3. CASE c = "lock"
  BY <1>1, <1>3 DEF Changed, Task, States
<1>4. CASE c = "start"
  BY <1>1, <1>4 DEF Changed, Task, States
<1>5. CASE c = "block"
  BY <1>1, <1>5, ParkedIsATask DEF Changed
<1>6. CASE c = "unblock"
  BY <1>1, <1>6 DEF Changed, Task, States
<1>7. QED
  BY <1>2, <1>3, <1>4, <1>5, <1>6 DEF AllCommands

\* The task an import makes.
NewTask(i, listed) ==
    [issue |-> i, criteria |-> listed, tested |-> FALSE,
     state |-> IF listed THEN "specd" ELSE "todo", blockedFrom |-> "none"]

LEMMA ImportAppends ==
  ASSUME TypeOK, NEW p \in Runs, Import(p)
  PROVE  \E i \in run[p].new, listed \in BOOLEAN :
            /\ NewTask(i, listed) \in Task
            /\ tasks' = Append(tasks, NewTask(i, listed))
            /\ run' = [run EXCEPT ![p].new = @ \ {i}, ![p].busy = TRUE]
<1>1. PICK i \in run[p].new, listed \in BOOLEAN :
        /\ tasks' = Append(tasks, NewTask(i, listed))
        /\ run' = [run EXCEPT ![p].new = @ \ {i}, ![p].busy = TRUE]
  BY DEF Import, NewTask
<1>2. i \in 1..MaxIssues
  BY LenProperties, AutopilotAssumption DEF TypeOK
<1>3. NewTask(i, listed) \in Task
  BY <1>2 DEF Task, NewTask, States
<1>4. QED
  BY <1>1, <1>3

\* What a chain makes of its task, and of its run.
LEMMA ChainEnds ==
  ASSUME TypeOK, NEW p \in Runs, Chain(p)
  PROVE  LET k == NextOf(p)  rest == run[p].queue \ {k} IN
         /\ k \in run[p].queue /\ k \in DOMAIN tasks
         /\ \E t \in Task, merged \in BOOLEAN :
               /\ tasks' = [tasks EXCEPT ![k] = t]
               /\ run' = [run EXCEPT ![p].queue = rest, ![p].at = AfterChain(rest),
                                     ![p].busy = @ \/ merged]
               /\ t.issue = tasks[k].issue /\ t.tested = tasks[k].tested
               /\ t.criteria = tasks[k].criteria
               /\ \/ Workable(tasks[k]) \/ tasks[k].state = "done"
                  \/ t.state = "blocked" /\ t.blockedFrom = tasks[k].state
<1> DEFINE k == NextOf(p)
           rest == run[p].queue \ {k}
<1>1. k \in run[p].queue /\ k \in DOMAIN tasks
  BY NextOfQueue DEF Chain, At, TypeOK, Process
<1>2. tasks[k] \in Task /\ tasks[k].state \in States
  BY <1>1, TasksAreASequence DEF Task
<1> DEFINE Ends(t, merged) ==
             /\ tasks' = [tasks EXCEPT ![k] = t]
             /\ run' = [run EXCEPT ![p].queue = rest, ![p].at = AfterChain(rest),
                                   ![p].busy = @ \/ merged]
<1>3. \/ /\ Workable(tasks[k]) \/ tasks[k].state = "done"
         /\ Ends([tasks[k] EXCEPT !.state = "done"], TRUE)
      \/ \E from \in {tasks[k].state} \cup
                      (IF Workable(tasks[k]) THEN {"in-progress"} ELSE {}) :
            Ends(Parked(tasks[k], from), FALSE)
  BY DEF Chain
<1> HIDE DEF k, rest
<1>4. CASE /\ Workable(tasks[k]) \/ tasks[k].state = "done"
           /\ Ends([tasks[k] EXCEPT !.state = "done"], TRUE)
  <2> DEFINE t == [tasks[k] EXCEPT !.state = "done"]
  <2>1. /\ t \in Task /\ t.issue = tasks[k].issue /\ t.tested = tasks[k].tested
        /\ t.criteria = tasks[k].criteria
    BY <1>2 DEF Task, States
  <2> HIDE DEF t
  <2>2. Ends(t, TRUE)
    BY <1>4 DEF t
  <2>3. QED
    BY <1>1, <1>4, <2>1, <2>2 DEF k, rest
<1>5. CASE \E from \in {tasks[k].state} \cup
                        (IF Workable(tasks[k]) THEN {"in-progress"} ELSE {}) :
              Ends(Parked(tasks[k], from), FALSE)
  <2>1. PICK from \in {tasks[k].state} \cup
                       (IF Workable(tasks[k]) THEN {"in-progress"} ELSE {}) :
               Ends(Parked(tasks[k], from), FALSE)
    BY <1>5
  <2>2. from \in States /\ (from = tasks[k].state \/ Workable(tasks[k]))
    BY <1>2, <2>1 DEF States
  <2> DEFINE t == Parked(tasks[k], from)
  <2>3. /\ t \in Task /\ t.issue = tasks[k].issue /\ t.tested = tasks[k].tested
        /\ t.criteria = tasks[k].criteria
        /\ tasks[k].state # "done" => t.state = "blocked" /\ t.blockedFrom = from
    BY <1>2, <2>2, ParkedIsATask
  <2>4. Ends(t, FALSE)
    BY <2>1
  <2> HIDE DEF t
  <2>5. \/ Workable(tasks[k]) \/ tasks[k].state = "done"
        \/ t.state = "blocked" /\ t.blockedFrom = tasks[k].state
    BY <2>2, <2>3
  <2>6. QED
    BY <1>1, <2>3, <2>4, <2>5 DEF k, rest
<1>6. QED
  BY <1>3, <1>4, <1>5

\* A run that becomes `r`.
LEMMA RunBecomes ==
  ASSUME TypeOK, NEW p \in Runs, NEW r \in Process, run' = [run EXCEPT ![p] = r],
         r.queue \subseteq DOMAIN tasks', r.new \subseteq DOMAIN issues',
         r.at = "sweep" => r.queue # {},
         DOMAIN tasks \subseteq DOMAIN tasks', DOMAIN issues \subseteq DOMAIN issues'
  PROVE  /\ run' \in [Runs -> Process]
         /\ \A q \in Runs : /\ run'[q].queue \subseteq DOMAIN tasks'
                            /\ run'[q].new \subseteq DOMAIN issues'
                            /\ run'[q].at = "sweep" => run'[q].queue # {}
BY DEF TypeOK, At

\* A step of run `p` that leaves GitHub and the backlog alone.
LEMMA RunMoves ==
  ASSUME TypeOK, NEW p \in Runs, NEW r \in Process, run' = [run EXCEPT ![p] = r],
         r.queue \subseteq DOMAIN tasks, r.new \subseteq DOMAIN issues,
         r.at = "sweep" => r.queue # {},
         UNCHANGED <<issues, tasks, unseen, moves>>,
         lock' \in {"none", "fresh", "stale"}, lapse' \subseteq {"pulls", "lost"}
  PROVE  TypeOK'
<1>1. /\ run' \in [Runs -> Process]
      /\ \A q \in Runs : /\ run'[q].queue \subseteq DOMAIN tasks'
                         /\ run'[q].new \subseteq DOMAIN issues'
                         /\ run'[q].at = "sweep" => run'[q].queue # {}
  BY RunBecomes
<1>2. QED
  BY <1>1 DEF TypeOK, At

LEMMA OffIsAProcess == Off \in Process
BY AutopilotAssumption DEF Off, Process

LEMMA AfterChainTypes ==
  ASSUME NEW queue
  PROVE  /\ AfterChain(queue) \in {"sweep", "retro", "unlock"}
         /\ AfterChain(queue) = "sweep" => queue # {}
BY DEF AfterChain

LEMMA InitTypes == Init => TypeOK
BY OffIsAProcess, AutopilotAssumption DEF Init, TypeOK, Off, At

LEMMA ImportTypes == ASSUME TypeOK, NEW p \in Runs, Import(p) PROVE TypeOK'
<1>1. PICK i \in run[p].new, listed \in BOOLEAN :
        /\ NewTask(i, listed) \in Task
        /\ tasks' = Append(tasks, NewTask(i, listed))
        /\ run' = [run EXCEPT ![p].new = @ \ {i}, ![p].busy = TRUE]
  BY ImportAppends
<1> DEFINE t == NewTask(i, listed)
<1>3. t \in Task
  BY <1>1
<1>4. tasks' \in Seq(Task) /\ Len(tasks') = Len(tasks) + 1
  BY <1>1, <1>3, AppendProperties DEF TypeOK
<1>5. DOMAIN tasks = 1..Len(tasks) /\ DOMAIN tasks' = 1..(Len(tasks) + 1) /\ Len(tasks) \in Nat
  BY <1>4, LenProperties DEF TypeOK
<1>6. Len(tasks') <= MaxTasks /\ unseen' \subseteq DOMAIN tasks'
  BY <1>4, <1>5, AutopilotAssumption DEF Import, TypeOK
<1> DEFINE r == [run[p] EXCEPT !.new = @ \ {i}, !.busy = TRUE]
<1>7. r \in Process /\ run' = [run EXCEPT ![p] = r]
  BY <1>1 DEF TypeOK, Process
<1>8. /\ r.queue = run[p].queue /\ r.new \subseteq run[p].new
      /\ r.at = "import" /\ UNCHANGED <<issues, lock, lapse, moves>>
  BY DEF Import, At, TypeOK, Process
<1>9. DOMAIN tasks \subseteq DOMAIN tasks'
  BY <1>5
<1> HIDE DEF r, t
<1>10. /\ run' \in [Runs -> Process]
      /\ \A q \in Runs : /\ run'[q].queue \subseteq DOMAIN tasks'
                         /\ run'[q].new \subseteq DOMAIN issues'
                         /\ run'[q].at = "sweep" => run'[q].queue # {}
  <2>1. /\ r.queue \subseteq DOMAIN tasks' /\ r.new \subseteq DOMAIN issues'
        /\ DOMAIN issues \subseteq DOMAIN issues'
        /\ r.at = "sweep" => r.queue # {}
    BY <1>8, <1>9 DEF TypeOK
  <2>2. QED
    BY <1>7, <1>9, <2>1, RunBecomes
<1>11. QED
  BY <1>4, <1>6, <1>8, <1>10 DEF TypeOK, At

LEMMA ChainTypes == ASSUME TypeOK, NEW p \in Runs, Chain(p) PROVE TypeOK'
<1> DEFINE k == NextOf(p)
           rest == run[p].queue \ {k}
<1>1. k \in run[p].queue /\ k \in DOMAIN tasks
  BY ChainEnds
<1>2. PICK t \in Task, merged \in BOOLEAN :
        /\ tasks' = [tasks EXCEPT ![k] = t]
        /\ run' = [run EXCEPT ![p].queue = rest, ![p].at = AfterChain(rest),
                              ![p].busy = @ \/ merged]
  BY ChainEnds
<1>3. issues' \in {issues, [issues EXCEPT ![tasks[k].issue] = FALSE]}
  BY DEF Chain
<1> DEFINE r == [run[p] EXCEPT !.queue = rest, !.at = AfterChain(rest), !.busy = @ \/ merged]
<1> HIDE DEF k
<1>5. r \in Process /\ run' = [run EXCEPT ![p] = r] /\ r.queue = rest /\ r.new = run[p].new
      /\ r.at = AfterChain(rest)
  BY <1>2, AfterChainTypes DEF TypeOK, Process
<1> HIDE DEF r
<1>6. tasks' \in Seq(Task) /\ Len(tasks') = Len(tasks) /\ DOMAIN tasks' = DOMAIN tasks
  BY <1>1, <1>2, TaskChanges
<1>7. issues' \in Seq(BOOLEAN) /\ Len(issues') = Len(issues) /\ DOMAIN issues' = DOMAIN issues
  <2>1. CASE issues' = issues
    BY <2>1 DEF TypeOK
  <2>2. CASE issues' = [issues EXCEPT ![tasks[k].issue] = FALSE]
    <3>1. issues \in Seq(BOOLEAN) /\ DOMAIN issues = 1..Len(issues)
      BY LenProperties DEF TypeOK
    <3>2. CASE tasks[k].issue \in DOMAIN issues
      BY <2>2, <3>1, <3>2, ExceptSeq, LenProperties
    <3>3. CASE tasks[k].issue \notin DOMAIN issues
      <4>1. issues' = issues
        BY <2>2, <3>1, <3>3, LenProperties
      <4>2. QED
        BY <4>1, <3>1
    <3>4. QED
      BY <3>2, <3>3
  <2>3. QED
    BY <1>3, <2>1, <2>2
<1>8. /\ run' \in [Runs -> Process]
      /\ \A q \in Runs : /\ run'[q].queue \subseteq DOMAIN tasks'
                         /\ run'[q].new \subseteq DOMAIN issues'
                         /\ run'[q].at = "sweep" => run'[q].queue # {}
  <2>1. r.queue \subseteq DOMAIN tasks' /\ r.new \subseteq DOMAIN issues'
    BY <1>5, <1>6, <1>7 DEF TypeOK
  <2>2. r.at = "sweep" => r.queue # {}
    BY <1>5, AfterChainTypes
  <2>3. QED
    BY <1>5, <1>6, <1>7, <2>1, <2>2, RunBecomes
<1>9. UNCHANGED <<lock, history>>
  BY DEF Chain
<1>10. QED
  BY <1>6, <1>7, <1>8, <1>9 DEF TypeOK, At, history

LEMMA NextTypes == TypeOK /\ [Next]_vars => TypeOK'
<1> SUFFICES ASSUME TypeOK, [Next]_vars PROVE TypeOK'
  OBVIOUS
<1> USE AutopilotAssumption
<1>1. ASSUME NEW p \in Runs, Started(p) PROVE TypeOK'
  <2>1. PICK r \in {[Off EXCEPT !.at = "pull", !.round = 1],
                    [Off EXCEPT !.at = "look", !.round = MaxRounds]} :
          run' = [run EXCEPT ![p] = r]
    BY <1>1 DEF Started, StartLoop, StartAutopilot
  <2>2. r \in Process /\ r.queue = {} /\ r.new = {} /\ r.at # "sweep"
    <3>1. 1 \in 0..MaxRounds /\ MaxRounds \in 0..MaxRounds
      OBVIOUS
    <3>2. \A at \in {"pull", "look"}, n \in 0..MaxRounds :
             LET o == [Off EXCEPT !.at = at, !.round = n]
             IN  o \in Process /\ o.queue = {} /\ o.new = {} /\ o.at = at
      BY DEF Off, Process
    <3>3. QED
      BY <3>1, <3>2
  <2>3. QED
    BY <1>1, <2>1, <2>2, RunMoves DEF Started, StartLoop, StartAutopilot, history, TypeOK
<1>2. ASSUME NEW p \in Runs, Pull(p) PROVE TypeOK'
  <2> DEFINE new == IF run'[p].at = "import" THEN Open \ Imported ELSE run[p].new
             r == [run[p] EXCEPT !.at = run'[p].at, !.new = new]
  <2>1. run'[p].at \in {"import", "look"}
    BY <1>2 DEF Pull, Now, TypeOK, Process
  <2>2. run' = [run EXCEPT ![p] = r]
    <3>1. CASE run' = [run EXCEPT ![p].at = "import", ![p].new = Open \ Imported]
      BY <3>1 DEF TypeOK, Process
    <3>2. CASE run' = [run EXCEPT ![p].at = "look"]
      BY <3>2 DEF TypeOK, Process
    <3>3. QED
      BY <1>2, <3>1, <3>2 DEF Pull, Now
  <2>3. Open \subseteq DOMAIN issues /\ DOMAIN issues \subseteq Nat
    BY LenProperties DEF Open, TypeOK
  <2>4. new \subseteq DOMAIN issues
    BY <2>3 DEF TypeOK
  <2>5. /\ r \in Process /\ r.new \subseteq DOMAIN issues
        /\ r.queue \subseteq DOMAIN tasks /\ r.at # "sweep"
    BY <2>1, <2>3, <2>4 DEF TypeOK, Process
  <2>6. lapse' \subseteq {"pulls", "lost"}
    BY <1>2 DEF Pull, TypeOK
  <2> HIDE DEF r, new
  <2>7. QED
    BY <1>2, <2>2, <2>5, <2>6, RunMoves DEF Pull, TypeOK
<1>3. ASSUME NEW p \in Runs, Import(p) PROVE TypeOK'
  BY <1>3, ImportTypes
<1>4. ASSUME NEW p \in Runs, ImportEnd(p) PROVE TypeOK'
  <2> DEFINE r == [run[p] EXCEPT !.at = "look", !.new = {}]
  <2>1. /\ r \in Process /\ run' = [run EXCEPT ![p] = r] /\ r.at # "sweep"
        /\ r.queue \subseteq DOMAIN tasks /\ r.new \subseteq DOMAIN issues
    BY <1>4 DEF ImportEnd, TypeOK, Process
  <2> HIDE DEF r
  <2>2. QED
    BY <1>4, <2>1, RunMoves DEF ImportEnd, TypeOK, history
<1>5. ASSUME NEW p \in Runs, Look(p) PROVE TypeOK'
  <2> DEFINE r == IF lock = "fresh" THEN Off ELSE [run[p] EXCEPT !.at = "take"]
  <2>1. /\ r \in Process /\ run' = [run EXCEPT ![p] = r] /\ r.at # "sweep"
        /\ r.queue \subseteq DOMAIN tasks /\ r.new \subseteq DOMAIN issues
    BY <1>5, OffIsAProcess DEF Look, TypeOK, Process, Off
  <2> HIDE DEF r
  <2>2. QED
    BY <1>5, <2>1, RunMoves DEF Look, TypeOK, history
<1>6. ASSUME NEW p \in Runs, NEW at \in {"doctor", "unlock"}, Now(p, at),
             UNCHANGED <<issues, tasks, unseen, moves>>,
             lock' \in {"none", "fresh", "stale"}, lapse' \subseteq {"pulls", "lost"}
      PROVE  TypeOK'
  <2> DEFINE r == [run[p] EXCEPT !.at = at]
  <2>1. /\ r \in Process /\ run' = [run EXCEPT ![p] = r] /\ r.at # "sweep"
        /\ r.queue \subseteq DOMAIN tasks /\ r.new \subseteq DOMAIN issues
    BY <1>6 DEF Now, TypeOK, Process
  <2> HIDE DEF r
  <2>2. QED
    BY <1>6, <2>1, RunMoves
<1>7. ASSUME NEW p \in Runs, Take(p) PROVE TypeOK'
  BY <1>6, <1>7 DEF Take, TypeOK
<1>8. ASSUME NEW p \in Runs, Doctor(p) PROVE TypeOK'
  <2>1. PICK fails \in BOOLEAN :
          run' = [run EXCEPT ![p].at = IF fails THEN "unlock" ELSE "queue",
                             ![p].round = IF fails THEN MaxRounds ELSE @]
    <3>1. PICK found \in Findings :
            run' = [run EXCEPT ![p].at = IF found \/ BacklogFails THEN "unlock" ELSE "queue",
                               ![p].round = IF found \/ BacklogFails THEN MaxRounds ELSE @]
      BY <1>8 DEF Doctor
    <3>2. CASE found \/ BacklogFails
      BY <3>1, <3>2
    <3>3. CASE ~(found \/ BacklogFails)
      BY <3>1, <3>3
    <3>4. QED
      BY <3>2, <3>3
  <2> DEFINE r == [run[p] EXCEPT !.at = IF fails THEN "unlock" ELSE "queue",
                                 !.round = IF fails THEN MaxRounds ELSE @]
  <2>2. /\ r \in Process /\ run' = [run EXCEPT ![p] = r] /\ r.at # "sweep"
        /\ r.queue \subseteq DOMAIN tasks /\ r.new \subseteq DOMAIN issues
    <3>1. run[p] \in Process /\ MaxRounds \in 0..MaxRounds
      BY DEF TypeOK
    <3>2. run' = [run EXCEPT ![p] = r]
      BY <2>1
    <3>3. CASE fails
      BY <3>1, <3>2, <3>3 DEF TypeOK, Process
    <3>4. CASE ~fails
      BY <3>1, <3>2, <3>4 DEF TypeOK, Process
    <3>5. QED
      BY <3>3, <3>4
  <2> HIDE DEF r
  <2>3. QED
    BY <1>8, <2>2, RunMoves DEF Doctor, TypeOK, history
<1>9. ASSUME NEW p \in Runs, Queue(p) PROVE TypeOK'
  <2> DEFINE queue == {k \in Waiting : Cardinality({j \in Waiting : j < k}) < MaxChains}
             r == [run[p] EXCEPT !.queue = queue, !.at = AfterChain(queue)]
  <2>1. queue \subseteq DOMAIN tasks /\ DOMAIN tasks \subseteq Nat
    BY TasksAreASequence DEF Waiting
  <2>2. run' = [run EXCEPT ![p] = r]
    BY <1>9 DEF Queue, TypeOK, Process
  <2> HIDE DEF queue
  <2>3. /\ r \in Process /\ r.at = AfterChain(queue) /\ r.queue = queue
        /\ r.new \subseteq DOMAIN issues
    BY <2>1, AfterChainTypes DEF TypeOK, Process
  <2> HIDE DEF r
  <2>4. QED
    BY <1>9, <2>1, <2>2, <2>3, AfterChainTypes, RunMoves DEF Queue, TypeOK, history
<1>10. ASSUME NEW p \in Runs, Chain(p) PROVE TypeOK'
  BY <1>10, ChainTypes
<1>11. ASSUME NEW p \in Runs, RetroRuns(p) PROVE TypeOK'
  <2>1. PICK n \in 0..MaxFiled : /\ Len(issues) + n <= MaxIssues
                                 /\ issues' = issues \o [i \in 1..n |-> TRUE]
    BY <1>11 DEF RetroRuns
  <2>2. [i \in 1..n |-> TRUE] \in Seq(BOOLEAN) /\ Len([i \in 1..n |-> TRUE]) = n
    OBVIOUS
  <2>3. issues' \in Seq(BOOLEAN) /\ Len(issues') = Len(issues) + n
    BY <2>1, <2>2, ConcatProperties DEF TypeOK
  <2>4. DOMAIN issues \subseteq DOMAIN issues'
    BY <2>1, <2>3, LenProperties DEF TypeOK
  <2> DEFINE r == [run[p] EXCEPT !.at = "unlock"]
  <2>5. /\ r \in Process /\ run' = [run EXCEPT ![p] = r] /\ r.at # "sweep"
        /\ r.queue \subseteq DOMAIN tasks /\ r.new \subseteq DOMAIN issues
    BY <1>11 DEF RetroRuns, Now, TypeOK, Process
  <2> HIDE DEF r
  <2>6. /\ run' \in [Runs -> Process]
        /\ \A q \in Runs : /\ run'[q].queue \subseteq DOMAIN tasks'
                           /\ run'[q].new \subseteq DOMAIN issues'
                           /\ run'[q].at = "sweep" => run'[q].queue # {}
    <3>1. UNCHANGED tasks
      BY <1>11 DEF RetroRuns
    <3>2. r.queue \subseteq DOMAIN tasks' /\ r.new \subseteq DOMAIN issues'
      BY <2>4, <2>5, <3>1
    <3>3. QED
      BY <2>4, <2>5, <3>1, <3>2, RunBecomes
  <2>7. QED
    BY <1>11, <2>1, <2>3, <2>6 DEF RetroRuns, TypeOK, At, history
<1>12. ASSUME NEW p \in Runs, Unlock(p) PROVE TypeOK'
  <2> DEFINE r == NextRound(run[p])
  <2>1. /\ r \in Process /\ r.at # "sweep" /\ r.queue = {} /\ r.new = {}
    <3>1. CASE run[p].round = MaxRounds \/ ~run[p].busy
      BY <3>1, OffIsAProcess DEF NextRound, Off
    <3>2. CASE ~(run[p].round = MaxRounds \/ ~run[p].busy)
      <4>1. run[p].round + 1 \in 0..MaxRounds
        BY <3>2 DEF TypeOK, Process
      <4>2. r = [Off EXCEPT !.at = "pull", !.round = run[p].round + 1]
        BY <3>2 DEF NextRound
      <4>3. QED
        BY <4>1, <4>2 DEF Off, Process
    <3>3. QED
      BY <3>1, <3>2
  <2>2. run' = [run EXCEPT ![p] = r]
    BY <1>12 DEF Unlock
  <2> HIDE DEF r
  <2>3. QED
    BY <1>12, <2>1, <2>2, RunMoves DEF Unlock, TypeOK, history
<1>13. ASSUME NEW p \in Runs, Kill(p) PROVE TypeOK'
  <2>1. run' = [run EXCEPT ![p] = Off]
    BY <1>13 DEF Kill
  <2>2. /\ tasks' \in Seq(Task) /\ Len(tasks') = Len(tasks) /\ DOMAIN tasks' = DOMAIN tasks
    <3>1. CASE tasks' = tasks
      BY <3>1 DEF TypeOK
    <3>2. CASE /\ At(p, "sweep")
               /\ tasks' = [tasks EXCEPT ![NextOf(p)].state = "in-progress"]
      <4>1. NextOf(p) \in DOMAIN tasks
        BY <3>2, NextOfQueue DEF At, TypeOK, Process
      <4> DEFINE t == [tasks[NextOf(p)] EXCEPT !.state = "in-progress"]
      <4>2. t \in Task /\ tasks' = [tasks EXCEPT ![NextOf(p)] = t]
        BY <3>2, <4>1, TasksAreASequence DEF Task, States
      <4> HIDE DEF t
      <4>3. QED
        BY <4>1, <4>2, TaskChanges
    <3>3. QED
      BY <1>13, <3>1, <3>2 DEF Kill
  <2>3. Off \in Process /\ Off.queue = {} /\ Off.new = {} /\ Off.at # "sweep"
    BY OffIsAProcess DEF Off
  <2>4. /\ run' \in [Runs -> Process]
        /\ \A q \in Runs : /\ run'[q].queue \subseteq DOMAIN tasks'
                           /\ run'[q].new \subseteq DOMAIN issues'
                           /\ run'[q].at = "sweep" => run'[q].queue # {}
    <3>1. UNCHANGED issues
      BY <1>13 DEF Kill
    <3>2. QED
      BY <2>1, <2>2, <2>3, <3>1, RunBecomes
  <2>5. UNCHANGED <<issues, unseen, lapse>> /\ lock' \in {lock, "stale"} /\ moves' \in 0..MaxMoves
    BY <1>13 DEF Kill, TypeOK
  <2>6. QED
    BY <2>2, <2>4, <2>5 DEF TypeOK, At
<1>14. CASE Tick
  BY <1>14 DEF Tick, TypeOK, At
<1>15. CASE OpenIssue
  <2>1. issues' \in Seq(BOOLEAN) /\ Len(issues') = Len(issues) + 1
    BY <1>15, AppendProperties DEF OpenIssue, TypeOK
  <2>2. DOMAIN issues \subseteq DOMAIN issues' /\ Len(issues') <= MaxIssues
    BY <1>15, <2>1, LenProperties DEF OpenIssue, TypeOK
  <2>3. QED
    BY <1>15, <2>1, <2>2 DEF OpenIssue, TypeOK, At, history
<1>16. ASSUME NEW k \in DOMAIN tasks, NEW c \in Commands, Command(k, c) PROVE TypeOK'
  <2>1. PICK t \in Task : tasks' = [tasks EXCEPT ![k] = t]
    <3>1. tasks[k] \in Task /\ c \in AllCommands
      BY TasksAreASequence
    <3>2. Changed(tasks[k], c) \in Task
      BY <3>1, ChangedIsATask
    <3>3. QED
      BY <1>16, <3>2 DEF Command
  <2>2. tasks' \in Seq(Task) /\ Len(tasks') = Len(tasks) /\ DOMAIN tasks' = DOMAIN tasks
    BY <2>1, TaskChanges
  <2>3. UNCHANGED <<issues, lock, run, lapse>> /\ unseen' \subseteq DOMAIN tasks
    BY <1>16 DEF Command, TypeOK
  <2>4. moves' \in 0..MaxMoves
    BY <1>16 DEF Command, TypeOK
  <2>5. QED
    BY <2>2, <2>3, <2>4 DEF TypeOK, At
<1>17. CASE UNCHANGED vars
  BY <1>17 DEF vars, history, TypeOK, At
<1>18. QED
  BY <1>1, <1>2, <1>3, <1>4, <1>5, <1>7, <1>8, <1>9, <1>10, <1>11, <1>12, <1>13, <1>14,
     <1>15, <1>16, <1>17 DEF Next, Step, Human

\* Issues, tasks, lock and runs keep their types in every reachable state.
THEOREM AutopilotTypeCorrect == Spec => []TypeOK
BY InitTypes, NextTypes, PTL DEF Spec

-----------------------------------------------------------------------------
(* What a step leaves of a run.                                            *)

LEMMA OthersStay ==
  ASSUME TypeOK, NEW p \in Runs, Started(p) \/ Step(p) \/ Kill(p)
  PROVE  \A q \in Runs \ {p} : run'[q] = run[q]
<1>1. CASE Started(p) \/ Kill(p)
  BY <1>1 DEF Started, StartLoop, StartAutopilot, Kill, TypeOK
<1>2. CASE Pull(p) \/ Import(p) \/ ImportEnd(p)
  BY <1>2 DEF Pull, Import, ImportEnd, Now, TypeOK
<1>3. CASE Look(p) \/ Take(p) \/ Doctor(p) \/ RetroRuns(p) \/ Unlock(p)
  BY <1>3 DEF Look, Take, Doctor, RetroRuns, Unlock, Now, TypeOK
<1>4. CASE Queue(p)
  BY <1>4 DEF Queue, TypeOK
<1>5. CASE Chain(p)
  BY <1>5 DEF Chain, TypeOK
<1>6. QED
  BY <1>1, <1>2, <1>3, <1>4, <1>5 DEF Step

Moves(p, at) == run'[p].at = at /\ run'[p].new = run[p].new /\ run'[p].queue = run[p].queue

LEMMA RunSteps ==
  ASSUME TypeOK, NEW p \in Runs
  PROVE  /\ Started(p) => run'[p].at \in {"pull", "look"} /\ run'[p].new = {} /\ run'[p].queue = {}
         /\ Pull(p) => /\ run'[p].at \in {"import", "look"} /\ run'[p].queue = run[p].queue
                       /\ run'[p].at = "look" => run'[p].new = run[p].new
         /\ Import(p) => /\ run'[p].at = "import" /\ run'[p].new \subseteq run[p].new
                         /\ run'[p].queue = run[p].queue
         /\ ImportEnd(p) => /\ run'[p].at = "look" /\ run'[p].new = {}
                            /\ run'[p].queue = run[p].queue
         /\ Look(p) => \/ lock = "fresh" /\ run'[p] = Off
                       \/ lock # "fresh" /\ Moves(p, "take")
         /\ Take(p) => Moves(p, "doctor")
         /\ Doctor(p) => /\ run'[p].at \in {"queue", "unlock"} /\ run'[p].new = run[p].new
                         /\ run'[p].queue = run[p].queue
                         /\ run'[p].at = "queue" => ~BacklogFails
         /\ Queue(p) => /\ run'[p].at \in {"sweep", "retro", "unlock"} /\ run'[p].new = run[p].new
                        /\ run'[p].queue \subseteq Waiting
         /\ Chain(p) => /\ run'[p].at \in {"sweep", "retro", "unlock"} /\ run'[p].new = run[p].new
                        /\ run'[p].queue \subseteq run[p].queue
         /\ RetroRuns(p) => Moves(p, "unlock")
         /\ Unlock(p) => run'[p].at \in {"off", "pull"} /\ run'[p].new = {} /\ run'[p].queue = {}
         /\ Kill(p) => run'[p] = Off
<1>1. ASSUME Started(p) PROVE run'[p].at \in {"pull", "look"} /\ run'[p].new = {} /\ run'[p].queue = {}
  <2>1. PICK at \in {"pull", "look"}, n \in {1, MaxRounds} :
          run' = [run EXCEPT ![p] = [Off EXCEPT !.at = at, !.round = n]]
    BY <1>1 DEF Started, StartLoop, StartAutopilot
  <2>2. run'[p] = [Off EXCEPT !.at = at, !.round = n]
    BY <2>1 DEF TypeOK
  <2>3. QED
    BY <2>2 DEF Off
<1>2. ASSUME Pull(p)
      PROVE  /\ run'[p].at \in {"import", "look"} /\ run'[p].queue = run[p].queue
             /\ run'[p].at = "look" => run'[p].new = run[p].new
  BY <1>2 DEF Pull, Now, TypeOK, Process
<1>3. ASSUME Import(p) \/ ImportEnd(p)
      PROVE  /\ run'[p].queue = run[p].queue /\ run'[p].new \subseteq run[p].new
             /\ Import(p) => run'[p].at = "import"
             /\ ImportEnd(p) => run'[p].at = "look" /\ run'[p].new = {}
  <2>1. CASE Import(p)
    <3>1. PICK i \in run[p].new : run' = [run EXCEPT ![p].new = @ \ {i}, ![p].busy = TRUE]
      BY <2>1, ImportAppends
    <3>2. run'[p].queue = run[p].queue /\ run'[p].new = run[p].new \ {i} /\ run'[p].at = run[p].at
      BY <3>1 DEF TypeOK, Process
    <3>3. run'[p].at = "import" /\ ~ImportEnd(p)
      <4>1. Len(tasks) < MaxTasks /\ run[p].new # {} /\ run[p].at = "import"
        BY <2>1, <3>1 DEF Import, At
      <4>2. Len(tasks) \in Nat /\ MaxTasks \in Nat
        BY TasksAreASequence, AutopilotAssumption
      <4>3. QED
        BY <3>2, <4>1, <4>2 DEF ImportEnd
    <3>4. QED
      BY <3>2, <3>3
  <2>2. CASE ImportEnd(p)
    <3>1. run'[p] = [run[p] EXCEPT !.at = "look", !.new = {}] /\ run[p] \in Process
      BY <2>2 DEF ImportEnd, TypeOK
    <3>2. run'[p].queue = run[p].queue /\ run'[p].new = {} /\ run'[p].at = "look"
      BY <3>1 DEF Process
    <3>3. run'[p].at # "import"
      BY <3>2
    <3>4. ~Import(p)
      <4>1. run[p].new = {} \/ Len(tasks) = MaxTasks
        BY <2>2 DEF ImportEnd
      <4>2. Len(tasks) \in Nat /\ MaxTasks \in Nat
        BY TasksAreASequence, AutopilotAssumption
      <4>3. ~(\E i \in run[p].new : Len(tasks) < MaxTasks)
        BY <4>1, <4>2
      <4>4. Import(p) => \E i \in run[p].new : Len(tasks) < MaxTasks
        BY DEF Import
      <4>5. QED
        BY <4>3, <4>4
    <3>5. QED
      BY <3>2, <3>4
  <2>3. QED
    BY <1>3, <2>1, <2>2
<1>4. ASSUME Look(p)
      PROVE  \/ lock = "fresh" /\ run'[p] = Off
             \/ lock # "fresh" /\ Moves(p, "take")
  BY <1>4 DEF Look, TypeOK, Process, Moves
<1>5. ASSUME Take(p) PROVE Moves(p, "doctor")
  BY <1>5 DEF Take, Now, TypeOK, Process, Moves
<1>6. ASSUME Doctor(p)
      PROVE  /\ run'[p].at \in {"queue", "unlock"} /\ run'[p].new = run[p].new
             /\ run'[p].queue = run[p].queue
             /\ run'[p].at = "queue" => ~BacklogFails
  <2>1. PICK found \in Findings :
          run' = [run EXCEPT ![p].at = IF found \/ BacklogFails THEN "unlock" ELSE "queue",
                             ![p].round = IF found \/ BacklogFails THEN MaxRounds ELSE @]
    BY <1>6 DEF Doctor
  <2>2. CASE found \/ BacklogFails
    BY <2>1, <2>2 DEF TypeOK, Process
  <2>3. CASE ~(found \/ BacklogFails)
    BY <2>1, <2>3 DEF TypeOK, Process
  <2>4. QED
    BY <2>2, <2>3
<1>7. ASSUME Queue(p)
      PROVE  /\ run'[p].at \in {"sweep", "retro", "unlock"} /\ run'[p].new = run[p].new
             /\ run'[p].queue \subseteq Waiting
  <2> DEFINE queue == {k \in Waiting : Cardinality({j \in Waiting : j < k}) < MaxChains}
  <2>1. run' = [run EXCEPT ![p].queue = queue, ![p].at = AfterChain(queue)] /\ queue \subseteq Waiting
    BY <1>7 DEF Queue
  <2> HIDE DEF queue
  <2>2. QED
    BY <2>1, AfterChainTypes DEF TypeOK, Process
<1>8. ASSUME Chain(p)
      PROVE  /\ run'[p].at \in {"sweep", "retro", "unlock"} /\ run'[p].new = run[p].new
             /\ run'[p].queue \subseteq run[p].queue
  <2> DEFINE rest == run[p].queue \ {NextOf(p)}
  <2>1. PICK merged \in BOOLEAN :
          run' = [run EXCEPT ![p].queue = rest, ![p].at = AfterChain(rest),
                             ![p].busy = @ \/ merged]
    BY <1>8, ChainEnds
  <2> DEFINE at == AfterChain(rest)
  <2>2. at \in {"sweep", "retro", "unlock"} /\ rest \subseteq run[p].queue
    BY AfterChainTypes
  <2>3. run' = [run EXCEPT ![p].queue = rest, ![p].at = at, ![p].busy = @ \/ merged]
    BY <2>1
  <2> HIDE DEF rest, at
  <2>4. run'[p].at = at /\ run'[p].queue = rest /\ run'[p].new = run[p].new
    BY <2>3 DEF TypeOK, Process
  <2>5. QED
    BY <2>2, <2>4
<1>9. ASSUME RetroRuns(p) PROVE Moves(p, "unlock")
  BY <1>9 DEF RetroRuns, Now, TypeOK, Process, Moves
<1>10. ASSUME Unlock(p)
       PROVE  run'[p].at \in {"off", "pull"} /\ run'[p].new = {} /\ run'[p].queue = {}
  <2>1. run'[p] = NextRound(run[p])
    BY <1>10 DEF Unlock, TypeOK
  <2>2. QED
    BY <2>1 DEF NextRound, Off
<1>11. ASSUME Kill(p) PROVE run'[p] = Off
  BY <1>11 DEF Kill, TypeOK
<1>12. QED
  BY <1>1, <1>2, <1>3, <1>4, <1>5, <1>6, <1>7, <1>8, <1>9, <1>10, <1>11

-----------------------------------------------------------------------------
(* The single-flight lock.                                                 *)

\* As long as the lock has kept out the others, a run that sweeps does so under a
\* fresh lock, alone, and no other has passed the look that precedes the lock.
LockInv ==
    \/ "lost" \in lapse
    \/ \A p \in Sweeping :
          lock = "fresh" /\ \A q \in Runs \ {p} : q \notin Sweeping /\ ~At(q, "take")

SweepAts == {"doctor", "queue", "sweep", "retro", "unlock"}

\* A step of run `p` that leaves the lock alone.
LEMMA LockKept ==
  ASSUME TypeOK, LockInv, NEW p \in Runs, UNCHANGED lock, lapse \subseteq lapse',
         \A q \in Runs \ {p} : run'[q].at = run[q].at,
         run'[p].at \in SweepAts => p \in Sweeping,
         run'[p].at = "take" => lock # "fresh" \/ At(p, "take")
  PROVE  LockInv'
<1>1. CASE "lost" \in lapse
  BY <1>1 DEF LockInv
<1>2. CASE "lost" \notin lapse /\ Sweeping = {}
  <2>1. Sweeping' = {}
    BY <1>2 DEF Sweeping, SweepAts
  <2>2. QED
    BY <2>1 DEF LockInv
<1>3. CASE "lost" \notin lapse /\ Sweeping # {}
  <2>1. Sweeping' \subseteq Sweeping /\ lock = "fresh"
    BY <1>3 DEF LockInv, Sweeping, SweepAts
  <2>2. \A q \in Runs : At(q, "take")' => At(q, "take")
    BY <2>1 DEF At
  <2>3. QED
    BY <1>3, <2>1, <2>2 DEF LockInv
<1>4. QED
  BY <1>1, <1>2, <1>3

LEMMA LockNext == TypeOK /\ LockInv /\ [Next]_vars => LockInv'
<1> SUFFICES ASSUME TypeOK, LockInv, [Next]_vars PROVE LockInv'
  OBVIOUS
<1>1. ASSUME NEW p \in Runs, Started(p) PROVE LockInv'
  <2>1. UNCHANGED <<lock, lapse>>
    BY <1>1 DEF Started, StartLoop, StartAutopilot, history
  <2>2. QED
    BY <1>1, <2>1, OthersStay, RunSteps, LockKept DEF SweepAts
<1>2. ASSUME NEW p \in Runs, Pull(p) \/ Import(p) \/ ImportEnd(p) PROVE LockInv'
  <2>1. UNCHANGED lock /\ lapse \subseteq lapse'
    BY <1>2 DEF Pull, Import, ImportEnd, history
  <2>2. run'[p].at \in {"import", "look"} /\ \A q \in Runs \ {p} : run'[q] = run[q]
    BY <1>2, OthersStay, RunSteps DEF Step
  <2>3. QED
    BY <2>1, <2>2, LockKept DEF SweepAts
<1>3. ASSUME NEW p \in Runs, Look(p) PROVE LockInv'
  <2>1. /\ UNCHANGED <<lock, lapse>> /\ \A q \in Runs \ {p} : run'[q].at = run[q].at
        /\ run'[p].at = IF lock = "fresh" THEN "off" ELSE "take"
    <3>1. \A q \in Runs \ {p} : run'[q] = run[q]
      BY <1>3, OthersStay DEF Step
    <3>2. run'[p].at = IF lock = "fresh" THEN "off" ELSE "take"
      BY <1>3, RunSteps DEF Off, Moves
    <3>3. QED
      BY <1>3, <3>1, <3>2 DEF Look, history
  <2>2. QED
    BY <2>1, LockKept DEF SweepAts
<1>4. ASSUME NEW p \in Runs, Take(p) PROVE LockInv'
  <2>1. /\ lock' = "fresh" /\ \A q \in Runs \ {p} : run'[q].at = run[q].at
        /\ At(p, "take")
    BY <1>4 DEF Take, Now, TypeOK
  <2>2. CASE "lost" \in lapse \/ Others(p, "take") # {}
    BY <1>4, <2>2 DEF Take, LockInv
  <2>3. CASE "lost" \notin lapse /\ Others(p, "take") = {}
    <3>1. Sweeping = {}
      BY <2>1, <2>3 DEF LockInv, Sweeping, At
    <3>2. Sweeping' \subseteq {p}
      BY <2>1, <3>1 DEF Sweeping
    <3>3. \A q \in Runs \ {p} : ~At(q, "take")'
      BY <2>1, <2>3 DEF Others, At
    <3>4. QED
      BY <2>1, <3>2, <3>3 DEF LockInv
  <2>4. QED
    BY <2>2, <2>3
<1>5. ASSUME NEW p \in Runs, Doctor(p) \/ Queue(p) \/ Chain(p) \/ RetroRuns(p) PROVE LockInv'
  <2>1. UNCHANGED <<lock, lapse>> /\ p \in Sweeping
    BY <1>5 DEF Doctor, Queue, Chain, RetroRuns, At, Sweeping, history
  <2>2. run'[p].at # "take"
    BY <1>5, RunSteps DEF Moves
  <2>3. \A q \in Runs \ {p} : run'[q] = run[q]
    BY <1>5, OthersStay DEF Step
  <2>4. QED
    BY <2>1, <2>2, <2>3, LockKept
<1>6. ASSUME NEW p \in Runs, Unlock(p) PROVE LockInv'
  <2>1. /\ p \in Sweeping /\ lapse' = lapse /\ \A q \in Runs \ {p} : run'[q].at = run[q].at
        /\ run'[p].at \notin SweepAts
    BY <1>6, OthersStay, RunSteps DEF Step, Unlock, Sweeping, At, SweepAts, history
  <2>2. "lost" \in lapse \/ Sweeping' = {}
    BY <2>1 DEF LockInv, Sweeping, SweepAts
  <2>3. QED
    BY <2>1, <2>2 DEF LockInv
<1>7. ASSUME NEW p \in Runs, Kill(p) PROVE LockInv'
  <2>1. /\ lapse' = lapse /\ \A q \in Runs \ {p} : run'[q].at = run[q].at
        /\ run'[p].at = "off"
    BY <1>7 DEF Kill, Off, TypeOK
  <2>2. CASE lock' = lock
    BY <2>1, <2>2, LockKept DEF SweepAts
  <2>3. CASE At(p, "take")
    <3>1. "lost" \in lapse \/ Sweeping = {}
      BY <2>3 DEF LockInv, Sweeping, At
    <3>2. "lost" \in lapse \/ Sweeping' = {}
      BY <2>1, <3>1 DEF Sweeping
    <3>3. QED
      BY <2>1, <3>2 DEF LockInv
  <2>4. QED
    BY <1>7, <2>2, <2>3 DEF Kill
<1>8. CASE Tick
  BY <1>8 DEF Tick, LockInv, Sweeping
<1>9. CASE Human
  BY <1>9 DEF Human, OpenIssue, Command, LockInv, Sweeping, At, history
<1>10. CASE UNCHANGED vars
  BY <1>10 DEF vars, history, LockInv, Sweeping, At
<1>11. QED
  BY <1>1, <1>2, <1>3, <1>4, <1>5, <1>6, <1>7, <1>8, <1>9, <1>10 DEF Next, Step

\* For any number of scheduled runs: two sweep at once only after one looked at the
\* lock before the other wrote it, or after one has outlived its own lock.
THEOREM OverlapIsExplained == Spec => []OverlapExplained
<1>1. Init => LockInv
  BY DEF Init, LockInv, Sweeping, Off
<1>2. TypeOK /\ LockInv => OverlapExplained
  <2> SUFFICES ASSUME LockInv, "lost" \notin lapse PROVE OneSweep
    BY DEF OverlapExplained
  <2>1. Sweeping = {} \/ \E p : Sweeping = {p}
    BY DEF LockInv, Sweeping
  <2>2. Cardinality(Sweeping) \in {0, 1}
    BY <2>1, FS_EmptySet, FS_Singleton
  <2>3. QED
    BY <2>2 DEF OneSweep
<1>3. QED
  BY <1>1, <1>2, LockNext, AutopilotTypeCorrect, PTL DEF Spec

-----------------------------------------------------------------------------
(* The pull.                                                               *)

\* No two tasks are of one issue, and what a run is about to import has no task
\* and is not about to be imported by another.
PullInv ==
    \/ "pulls" \in lapse
    \/ /\ \A j, k \in DOMAIN tasks : tasks[j].issue = tasks[k].issue => j = k
       /\ \A p \in Runs : /\ run[p].new \cap Imported = {}
                          /\ \A q \in Runs \ {p} : run[p].new \cap run[q].new = {}

\* Only a run that imports has issues to import.
NewInv == \A p \in Runs : run[p].new # {} => At(p, "import")

LEMMA NewNext == TypeOK /\ NewInv /\ [Next]_vars => NewInv'
<1> SUFFICES ASSUME TypeOK, NewInv, [Next]_vars PROVE NewInv'
  OBVIOUS
<1>1. ASSUME NEW p \in Runs,
             \A q \in Runs \ {p} : run'[q] = run[q],
             run'[p].new # {} => run'[p].at = "import"
      PROVE  NewInv'
  BY <1>1 DEF NewInv, At
<1>2. ASSUME NEW p \in Runs, Started(p) \/ Look(p) \/ Unlock(p) \/ Kill(p) PROVE NewInv'
  <2>1. \/ run'[p].new = {}
        \/ run[p].at # "import" /\ run'[p].new = run[p].new
    BY <1>2, RunSteps DEF Look, At, Off, Moves
  <2>2. \A q \in Runs \ {p} : run'[q] = run[q]
    BY <1>2, OthersStay DEF Step
  <2>3. QED
    BY <1>1, <2>1, <2>2 DEF NewInv, At
<1>3. ASSUME NEW p \in Runs, Pull(p) \/ Import(p) \/ ImportEnd(p) PROVE NewInv'
  <2>1. \/ run'[p].new = {} \/ run'[p].at = "import"
        \/ Pull(p) /\ run'[p].new = run[p].new
    BY <1>3, RunSteps
  <2>2. \A q \in Runs \ {p} : run'[q] = run[q]
    BY <1>3, OthersStay DEF Step
  <2>3. QED
    BY <1>1, <2>1, <2>2 DEF NewInv, Pull, At
<1>4. ASSUME NEW p \in Runs, Take(p) \/ Doctor(p) \/ Queue(p) \/ Chain(p) \/ RetroRuns(p)
      PROVE  NewInv'
  <2>1. run[p].at # "import"
    BY <1>4 DEF Take, Doctor, Queue, Chain, RetroRuns, At
  <2>2. run'[p].new = run[p].new
    BY <1>4, RunSteps DEF Moves
  <2>3. \A q \in Runs \ {p} : run'[q] = run[q]
    BY <1>4, OthersStay DEF Step
  <2>4. QED
    BY <1>1, <2>1, <2>2, <2>3 DEF NewInv, At
<1>5. CASE Tick \/ Human \/ UNCHANGED vars
  BY <1>5 DEF Tick, Human, OpenIssue, Command, vars, NewInv, At
<1>6. QED
  BY <1>2, <1>3, <1>4, <1>5 DEF Next, Step

\* A step that makes no task and gives no run anything to import.
LEMMA PullKept ==
  ASSUME PullInv, lapse \subseteq lapse', DOMAIN tasks' = DOMAIN tasks,
         \A k \in DOMAIN tasks : tasks'[k].issue = tasks[k].issue,
         \A p \in Runs : run'[p].new \subseteq run[p].new
  PROVE  PullInv'
<1>1. Imported' = Imported
  BY DEF Imported
<1>2. QED
  BY <1>1 DEF PullInv

LEMMA SameIssues ==
  ASSUME TypeOK, NEW k \in DOMAIN tasks, NEW t \in Task, t.issue = tasks[k].issue,
         tasks' = [tasks EXCEPT ![k] = t]
  PROVE  /\ DOMAIN tasks' = DOMAIN tasks
         /\ \A j \in DOMAIN tasks : tasks'[j].issue = tasks[j].issue
BY TaskChanges

LEMMA PullNext == TypeOK /\ NewInv /\ PullInv /\ [Next]_vars => PullInv'
<1> SUFFICES ASSUME TypeOK, NewInv, PullInv, [Next]_vars PROVE PullInv'
  OBVIOUS
<1>1. ASSUME NEW p \in Runs, Pull(p) PROVE PullInv'
  <2>1. CASE Now(p, "look") /\ UNCHANGED lapse
    <3>1. \A q \in Runs : run'[q].new = run[q].new
      BY <2>1 DEF Now, TypeOK, Process
    <3>2. QED
      BY <1>1, <2>1, <3>1, PullKept DEF Pull
  <2>2. CASE /\ run' = [run EXCEPT ![p].at = "import", ![p].new = Open \ Imported]
             /\ lapse' = IF \E q \in Others(p, "import") : run[q].new \cap run'[p].new # {}
                         THEN lapse \cup {"pulls"} ELSE lapse
    <3>1. /\ run'[p].new \cap Imported = {} /\ \A q \in Runs \ {p} : run'[q] = run[q]
          /\ Imported' = Imported /\ tasks' = tasks
      BY <1>1, <2>2 DEF Pull, Imported, TypeOK, Process
    <3>2. CASE "pulls" \in lapse'
      BY <3>2 DEF PullInv
    <3>3. CASE "pulls" \notin lapse'
      <4>1. "pulls" \notin lapse
            /\ \A q \in Others(p, "import") : run[q].new \cap run'[p].new = {}
        BY <2>2, <3>3
      <4>2. \A q \in Runs \ {p} : run[q].new \cap run'[p].new = {}
        BY <4>1 DEF NewInv, Others
      <4>3. QED
        BY <3>1, <4>1, <4>2 DEF PullInv
    <3>4. QED
      BY <3>2, <3>3
  <2>3. QED
    BY <1>1, <2>1, <2>2 DEF Pull
<1>2. ASSUME NEW p \in Runs, Import(p) PROVE PullInv'
  <2>1. PICK i \in run[p].new, listed \in BOOLEAN :
          /\ NewTask(i, listed) \in Task
          /\ tasks' = Append(tasks, NewTask(i, listed))
          /\ run' = [run EXCEPT ![p].new = @ \ {i}, ![p].busy = TRUE]
    BY <1>2, ImportAppends
  <2>2. PICK t \in Task : t = NewTask(i, listed)
    BY <2>1
  <2>3. /\ DOMAIN tasks = 1..Len(tasks) /\ DOMAIN tasks' = 1..(Len(tasks) + 1)
        /\ Len(tasks) \in Nat /\ tasks'[Len(tasks) + 1].issue = i
        /\ \A k \in DOMAIN tasks : tasks'[k] = tasks[k]
    BY <2>1, <2>2, AppendProperties, LenProperties DEF TypeOK, NewTask
  <2>4. Imported' = Imported \cup {i}
    BY <2>3 DEF Imported
  <2>5. /\ run'[p].new = run[p].new \ {i} /\ \A q \in Runs \ {p} : run'[q] = run[q]
        /\ lapse' = lapse
    BY <1>2, <2>1 DEF Import, TypeOK, Process
  <2>6. CASE "pulls" \notin lapse
    <3>1. i \notin Imported /\ \A q \in Runs \ {p} : i \notin run[q].new
      BY <2>6 DEF PullInv
    <3>2. \A j, k \in DOMAIN tasks' : tasks'[j].issue = tasks'[k].issue => j = k
      BY <2>3, <2>6, <3>1 DEF PullInv, Imported
    <3>3. \A q \in Runs : /\ run'[q].new \cap Imported' = {}
                          /\ \A o \in Runs \ {q} : run'[q].new \cap run'[o].new = {}
      BY <2>4, <2>5, <2>6, <3>1 DEF PullInv
    <3>4. QED
      BY <3>2, <3>3 DEF PullInv
  <2>7. QED
    BY <2>5, <2>6 DEF PullInv
<1>3. ASSUME NEW p \in Runs, Started(p) \/ ImportEnd(p) \/ Look(p) \/ Take(p) \/ Doctor(p)
                             \/ Queue(p) \/ RetroRuns(p) \/ Unlock(p)
      PROVE  PullInv'
  <2>1. UNCHANGED tasks /\ lapse \subseteq lapse'
    BY <1>3 DEF Started, StartLoop, StartAutopilot, ImportEnd, Look, Take, Doctor, Queue,
                RetroRuns, Unlock, history
  <2>2. \A q \in Runs : run'[q].new \subseteq run[q].new
    <3>1. run'[p].new \subseteq run[p].new
      BY <1>3, RunSteps DEF Off, Moves
    <3>2. QED
      BY <1>3, <3>1, OthersStay DEF Step
  <2>3. QED
    BY <2>1, <2>2, PullKept
<1>4. ASSUME NEW p \in Runs, Chain(p) PROVE PullInv'
  <2>1. NextOf(p) \in DOMAIN tasks
    BY <1>4, ChainEnds
  <2>2. PICK t \in Task : /\ tasks' = [tasks EXCEPT ![NextOf(p)] = t]
                          /\ t.issue = tasks[NextOf(p)].issue
    BY <1>4, ChainEnds
  <2>3. lapse' = lapse /\ \A q \in Runs : run'[q].new = run[q].new
    <3>1. \A q \in Runs \ {p} : run'[q] = run[q]
      BY <1>4, OthersStay DEF Step
    <3>2. run'[p].new = run[p].new
      BY <1>4, RunSteps
    <3>3. QED
      BY <1>4, <3>1, <3>2 DEF Chain, history
  <2>4. QED
    BY <2>1, <2>2, <2>3, SameIssues, PullKept
<1>5. ASSUME NEW p \in Runs, Kill(p) PROVE PullInv'
  <2>1. \A q \in Runs : run'[q].new \subseteq run[q].new
    BY <1>5 DEF Kill, Off, TypeOK
  <2>2. CASE UNCHANGED tasks
    BY <1>5, <2>1, <2>2, PullKept DEF Kill
  <2>3. CASE At(p, "sweep") /\ tasks' = [tasks EXCEPT ![NextOf(p)].state = "in-progress"]
    <3>1. PICK k \in DOMAIN tasks : k = NextOf(p)
      BY <2>3, NextOfQueue DEF At, TypeOK, Process
    <3> DEFINE t == [tasks[k] EXCEPT !.state = "in-progress"]
    <3>2. t \in Task /\ t.issue = tasks[k].issue /\ tasks' = [tasks EXCEPT ![k] = t]
      BY <2>3, <3>1, TasksAreASequence DEF Task, States
    <3> HIDE DEF t
    <3>3. QED
      BY <1>5, <2>1, <3>2, SameIssues, PullKept DEF Kill
  <2>4. QED
    BY <1>5, <2>2, <2>3 DEF Kill
<1>6. ASSUME NEW k \in DOMAIN tasks, NEW c \in Commands, Command(k, c) PROVE PullInv'
  <2>1. PICK t \in Task : t.issue = tasks[k].issue /\ tasks' = [tasks EXCEPT ![k] = t]
    BY <1>6, AutopilotAssumption, TasksAreASequence, ChangedIsATask DEF Command
  <2>2. QED
    BY <1>6, <2>1, SameIssues, PullKept DEF Command
<1>7. CASE Tick \/ OpenIssue \/ UNCHANGED vars
  BY <1>7, PullKept DEF Tick, OpenIssue, vars, history
<1>8. QED
  BY <1>1, <1>2, <1>3, <1>4, <1>5, <1>6, <1>7 DEF Next, Step, Human

\* The first n numbers.
LEMMA UpTo ==
  ASSUME NEW n \in Nat
  PROVE  IsFiniteSet(1..n) /\ Cardinality(1..n) = n
<1>1. 1 \in Int /\ n \in Int
  OBVIOUS
<1>2. IsFiniteSet(1..n) /\ Cardinality(1..n) = IF 1 > n THEN 0 ELSE n - 1 + 1
  BY <1>1, FS_Interval
<1>3. QED
  BY <1>2

\* For any number of runs and issues: one task per issue, as long as no two pulls
\* found the same issue.
THEOREM IssuesAreImportedOnce == Spec => []ImportedOnce
<1>1. Init => PullInv /\ NewInv
  BY DEF Init, PullInv, NewInv, Imported, Off
<1>2. TypeOK /\ PullInv => ImportedOnce
  <2> SUFFICES ASSUME TypeOK, PullInv, "pulls" \notin lapse
               PROVE  Cardinality(Imported) = Len(tasks)
    BY DEF ImportedOnce
  <2> DEFINE f == [k \in DOMAIN tasks |-> tasks[k].issue]
  <2>1. f \in Bijection(DOMAIN tasks, Imported)
    BY DEF PullInv, Imported, Bijection, Injection, Surjection, IsInjective
  <2>2. DOMAIN tasks = 1..Len(tasks) /\ Len(tasks) \in Nat
    BY TasksAreASequence
  <2>3. IsFiniteSet(DOMAIN tasks) /\ Cardinality(DOMAIN tasks) = Len(tasks)
    <3>1. Len(tasks) \in Nat
      BY <2>2
    <3>2. IsFiniteSet(1..Len(tasks)) /\ Cardinality(1..Len(tasks)) = Len(tasks)
      BY <3>1, UpTo
    <3>3. QED
      BY <2>2, <3>2
  <2>4. ExistsBijection(DOMAIN tasks, Imported)
    BY <2>1 DEF ExistsBijection
  <2>5. QED
    BY <2>3, <2>4, FS_Bijection
<1>3. QED
  BY <1>1, <1>2, PullNext, NewNext, AutopilotTypeCorrect, PTL DEF Spec

-----------------------------------------------------------------------------
(* What the schedule merges.                                               *)

Backed(k) == ReviewerGate \/ tasks[k].tested \/ k \in unseen

\* A task nothing has taken up, or brings back as taken up.
Unworked(t) ==
    /\ {t.state, t.blockedFrom} \cap {"in-progress", "done"} = {}
    /\ t.state = "todo" => ~t.criteria

\* What is not backed is unworked, and no run whose doctor has looked is going to
\* work it.
Idle(k) == Unworked(tasks[k]) /\ (Behind(k) => tasks[k].state # "specd")

BackedInv == \A k \in DOMAIN tasks : Backed(k) \/ Idle(k)

\* What is idle and behind a doctor, no chain can work.
LEMMA IdleIsNotWorkable ==
  ASSUME TypeOK, NEW k \in DOMAIN tasks, ~Backed(k), Idle(k), Behind(k)
  PROVE  ~Workable(tasks[k]) /\ tasks[k].state \in {"todo", "blocked"}
<1>1. tasks[k].state \in States
  BY TasksAreASequence DEF Task
<1>2. tasks[k].state \notin {"in-progress", "done", "specd"} /\ ~tasks[k].tested
  BY DEF Idle, Unworked, Backed
<1>3. QED
  BY <1>1, <1>2 DEF States, Workable, Specified, Idle, Unworked

\* A step that leaves a task alone, and brings no run to it.
LEMMA IdleKept ==
  ASSUME NEW k \in DOMAIN tasks, BackedInv,
         tasks'[k] = tasks[k], k \in unseen => k \in unseen', Behind(k)' => Behind(k)
  PROVE  Backed(k)' \/ Idle(k)'
BY DEF BackedInv, Backed, Idle

\* A step that makes of task `k` what nothing has taken up, or what is backed, and
\* brings no run to any task.
LEMMA OneTaskKept ==
  ASSUME TypeOK, BackedInv, NEW k \in DOMAIN tasks, NEW t \in Task,
         tasks' = [tasks EXCEPT ![k] = t], unseen \subseteq unseen',
         \A j \in DOMAIN tasks : Behind(j)' => Behind(j),
         \/ ReviewerGate \/ t.tested \/ k \in unseen'
         \/ Unworked(t) /\ (Behind(k) => t.state # "specd")
  PROVE  BackedInv'
<1>1. DOMAIN tasks' = DOMAIN tasks /\ \A j \in DOMAIN tasks : tasks'[j] = IF j = k THEN t ELSE tasks[j]
  BY TaskChanges
<1>2. \A j \in DOMAIN tasks \ {k} : Backed(j)' \/ Idle(j)'
  BY <1>1, IdleKept
<1>3. tasks'[k] = t
  BY <1>1
<1>4. Backed(k)' \/ Idle(k)'
  BY <1>3 DEF Backed, Idle
<1>5. QED
  BY <1>1, <1>2, <1>4 DEF BackedInv

\* A run that does not hear its doctor and queues nothing comes to no task.
LEMMA NobodyComes ==
  ASSUME NEW p \in Runs, \A q \in Runs \ {p} : run'[q] = run[q],
         run'[p].at # "queue" \/ At(p, "queue"),
         run'[p].queue \subseteq run[p].queue \/ At(p, "queue")
  PROVE  \A k \in DOMAIN tasks : Behind(k)' => Behind(k)
<1>1. ASSUME NEW k, NEW q \in Runs, run'[q].at = "queue" \/ k \in run'[q].queue
      PROVE  run[q].at = "queue" \/ k \in run[q].queue \/ Behind(k)
  BY <1>1 DEF At, Behind
<1>2. QED
  BY <1>1 DEF Behind, At

LEMMA BackedNext == TypeOK /\ BackedInv /\ [Next]_vars => BackedInv'
<1> SUFFICES ASSUME TypeOK, BackedInv, [Next]_vars PROVE BackedInv'
  OBVIOUS
<1>1. ASSUME NEW p \in Runs, Started(p) \/ Pull(p) \/ ImportEnd(p) \/ Look(p) \/ Take(p)
                             \/ Queue(p) \/ RetroRuns(p) \/ Unlock(p)
      PROVE  BackedInv'
  <2>1. UNCHANGED <<tasks, unseen>>
    BY <1>1 DEF Started, StartLoop, StartAutopilot, Pull, ImportEnd, Look, Take, Queue, RetroRuns,
                Unlock, history
  <2>2. \A q \in Runs \ {p} : run'[q] = run[q]
    BY <1>1, OthersStay DEF Step
  <2>3. run'[p].at # "queue" /\ (run'[p].queue \subseteq run[p].queue \/ At(p, "queue"))
    <3>1. CASE Queue(p)
      <4>1. At(p, "queue")
        BY <3>1 DEF Queue
      <4>2. run'[p].at \in {"sweep", "retro", "unlock"}
        BY <3>1, RunSteps
      <4>3. QED
        BY <4>1, <4>2
    <3>2. CASE ~Queue(p)
      BY <1>1, <3>2, RunSteps DEF Off, Moves
    <3>3. QED
      BY <3>1, <3>2
  <2>4. \A k \in DOMAIN tasks : Behind(k)' => Behind(k)
    BY <2>2, <2>3, NobodyComes
  <2>5. \A k \in DOMAIN tasks : Backed(k)' \/ Idle(k)'
    BY <2>1, <2>4, IdleKept
  <2>6. QED
    BY <2>1, <2>5 DEF BackedInv
<1>2. ASSUME NEW p \in Runs, Import(p) PROVE BackedInv'
  <2>1. PICK i \in run[p].new, listed \in BOOLEAN :
          /\ NewTask(i, listed) \in Task
          /\ tasks' = Append(tasks, NewTask(i, listed))
          /\ run' = [run EXCEPT ![p].new = @ \ {i}, ![p].busy = TRUE]
    BY <1>2, ImportAppends
  <2>2. PICK t \in Task : t = NewTask(i, listed)
    BY <2>1
  <2>3. PICK n \in Nat : n = Len(tasks) + 1
    BY LenProperties DEF TypeOK
  <2>4. /\ DOMAIN tasks = 1..Len(tasks) /\ DOMAIN tasks' = DOMAIN tasks \cup {n}
        /\ n \notin DOMAIN tasks /\ Len(tasks') = n /\ tasks'[n] = t
        /\ \A k \in DOMAIN tasks : tasks'[k] = tasks[k]
    BY <2>1, <2>2, <2>3, AppendProperties, LenProperties DEF TypeOK
  <2>5. \A q \in Runs : run'[q].queue = run[q].queue /\ run'[q].at = run[q].at
    BY <2>1 DEF TypeOK, Process
  <2>6. \A k : Behind(k)' <=> Behind(k)
    BY <2>5 DEF Behind, At
  <2>7. unseen \subseteq unseen' /\ ((\E q \in Runs : At(q, "queue")) => n \in unseen')
    BY <1>2, <2>4 DEF Import
  <2>8. \A k \in DOMAIN tasks : Backed(k)' \/ Idle(k)'
    BY <2>4, <2>6, <2>7, IdleKept
  <2>9. Behind(n) => n \in unseen'
    BY <2>4, <2>7 DEF Behind, TypeOK
  <2>10. Unworked(t)
    BY <2>2 DEF Unworked, NewTask
  <2>11. Backed(n)' \/ Idle(n)'
    BY <2>4, <2>6, <2>9, <2>10 DEF Backed, Idle
  <2>12. QED
    BY <2>4, <2>8, <2>11 DEF BackedInv
<1>3. ASSUME NEW p \in Runs, Doctor(p) PROVE BackedInv'
  <2>1. /\ UNCHANGED <<tasks, unseen>> /\ \A q \in Runs \ {p} : run'[q] = run[q]
        /\ run'[p].queue = run[p].queue
    BY <1>3, OthersStay, RunSteps DEF Step, Doctor, history
  <2>2. CASE run'[p].at # "queue"
    <3>1. \A k \in DOMAIN tasks : Behind(k)' => Behind(k)
      BY <2>1, <2>2, NobodyComes
    <3>2. \A k \in DOMAIN tasks : Backed(k)' \/ Idle(k)'
      BY <2>1, <3>1, IdleKept
    <3>3. QED
      BY <2>1, <3>2 DEF BackedInv
  <2>3. CASE run'[p].at = "queue"
    <3>1. ~BacklogFails
      BY <1>3, <2>3, RunSteps
    <3>2. \A k \in DOMAIN tasks : tasks[k].state = "specd" => Backed(k)
      BY <3>1 DEF BacklogFails, Testless, Runnable, Backed
    <3>3. \A k \in DOMAIN tasks : Backed(k) \/ (Unworked(tasks[k]) /\ tasks[k].state # "specd")
      BY <3>2 DEF BackedInv, Idle
    <3>4. QED
      BY <2>1, <3>3 DEF BackedInv, Backed, Idle
  <2>4. QED
    BY <2>2, <2>3
<1>4. ASSUME NEW p \in Runs, Chain(p) PROVE BackedInv'
  <2>1. PICK k \in DOMAIN tasks : k = NextOf(p) /\ k \in run[p].queue
    BY <1>4, ChainEnds
  <2>2. PICK t \in Task :
          /\ tasks' = [tasks EXCEPT ![k] = t]
          /\ t.tested = tasks[k].tested /\ t.criteria = tasks[k].criteria
          /\ \/ Workable(tasks[k]) \/ tasks[k].state = "done"
             \/ t.state = "blocked" /\ t.blockedFrom = tasks[k].state
    BY <1>4, <2>1, ChainEnds
  <2>3. /\ \A q \in Runs \ {p} : run'[q] = run[q]
        /\ run'[p].queue \subseteq run[p].queue /\ run'[p].at # "queue" /\ unseen' = unseen
    BY <1>4, OthersStay, RunSteps DEF Step, Chain, history
  <2>4. \A j \in DOMAIN tasks : Behind(j)' => Behind(j)
    BY <2>3, NobodyComes
  <2>5. CASE Backed(k)
    BY <2>2, <2>3, <2>4, <2>5, OneTaskKept DEF Backed
  <2>6. CASE ~Backed(k)
    <3>1. Behind(k)
      BY <2>1 DEF Behind
    <3>2. ~Workable(tasks[k]) /\ tasks[k].state \in {"todo", "blocked"}
      BY <2>6, <3>1, IdleIsNotWorkable DEF BackedInv
    <3>3. t.state = "blocked" /\ t.blockedFrom \in {"todo", "blocked"}
      BY <2>2, <3>2
    <3>4. Unworked(t) /\ t.state # "specd"
      BY <3>3 DEF Unworked
    <3>5. QED
      BY <2>2, <2>3, <2>4, <3>4, OneTaskKept
  <2>7. QED
    BY <2>5, <2>6
<1>5. ASSUME NEW p \in Runs, Kill(p) PROVE BackedInv'
  <2>1. /\ \A q \in Runs \ {p} : run'[q] = run[q]
        /\ run'[p].queue = {} /\ run'[p].at # "queue" /\ unseen' = unseen
    BY <1>5 DEF Kill, Off, TypeOK
  <2>2. \A j \in DOMAIN tasks : Behind(j)' => Behind(j)
    BY <2>1, NobodyComes
  <2>3. CASE UNCHANGED tasks
    BY <2>1, <2>2, <2>3, IdleKept DEF BackedInv
  <2>4. CASE /\ At(p, "sweep") /\ Workable(tasks[NextOf(p)])
             /\ tasks' = [tasks EXCEPT ![NextOf(p)].state = "in-progress"]
    <3>1. PICK k \in DOMAIN tasks : k = NextOf(p) /\ k \in run[p].queue
      BY <2>4, NextOfQueue DEF At, TypeOK, Process
    <3>2. Behind(k) /\ Workable(tasks[k])
      BY <2>4, <3>1 DEF Behind
    <3>3. Backed(k)
      BY <3>2, IdleIsNotWorkable DEF BackedInv
    <3> DEFINE t == [tasks[k] EXCEPT !.state = "in-progress"]
    <3>4. t \in Task /\ t.tested = tasks[k].tested /\ tasks' = [tasks EXCEPT ![k] = t]
      BY <2>4, <3>1, TasksAreASequence DEF Task, States
    <3> HIDE DEF t
    <3>5. QED
      BY <2>1, <2>2, <3>3, <3>4, OneTaskKept DEF Backed
  <2>5. QED
    BY <1>5, <2>3, <2>4 DEF Kill
<1>6. ASSUME NEW k \in DOMAIN tasks, NEW c \in Commands, Command(k, c) PROVE BackedInv'
  <2>1. run' = run /\ unseen \subseteq unseen' /\ c \in AllCommands
    BY <1>6, AutopilotAssumption DEF Command
  <2>2. \A j \in DOMAIN tasks : Behind(j)' => Behind(j)
    BY <2>1 DEF Behind, At
  <2>3. PICK t \in Task : t = Changed(tasks[k], c)
    BY <2>1, TasksAreASequence, ChangedIsATask
  <2>4. tasks' = [tasks EXCEPT ![k] = t] /\ tasks'[k] = t
    BY <1>6, <2>3, TaskChanges DEF Command
  <2>5. SUFFICES ASSUME ~ReviewerGate, ~t.tested, k \notin unseen'
                 PROVE  Unworked(t) /\ (Behind(k) => t.state # "specd")
    BY <2>1, <2>2, <2>4, OneTaskKept
  <2>6. /\ tasks[k] \in Task /\ tasks[k].state \in States
        /\ tasks[k].blockedFrom \in States \cup {"none"} /\ ~tasks[k].tested
    BY <2>1, <2>3, <2>5, TasksAreASequence, ChangedIsATask DEF Task
  <2>7. Unworked(tasks[k]) /\ (Behind(k) => tasks[k].state # "specd")
    BY <2>1, <2>5, <2>6 DEF BackedInv, Backed, Idle
  <2>8. /\ c # "start" /\ ~(t.state = "todo" /\ t.criteria)
        /\ c \in {"spec", "unblock"} => ~Behind(k)
    BY <1>6, <2>4, <2>5 DEF Command
  <2>9. CASE c = "spec"
    <3>1. t.state \in {tasks[k].state, "specd"} /\ t.blockedFrom = tasks[k].blockedFrom
      BY <2>3, <2>6, <2>9 DEF Changed, Task
    <3>2. QED
      BY <2>7, <2>8, <2>9, <3>1 DEF Unworked
  <2>10. CASE c = "lock"
    BY <2>3, <2>5, <2>6, <2>10 DEF Changed, Task
  <2>11. CASE c = "block"
    <3>1. t.state = "blocked" /\ t.blockedFrom = tasks[k].state
      BY <2>3, <2>6, <2>7, <2>11, ParkedIsATask DEF Changed, Unworked
    <3>2. QED
      BY <2>7, <3>1 DEF Unworked
  <2>12. CASE c = "unblock"
    <3>1. t.state \in {tasks[k].blockedFrom, "specd"} /\ t.blockedFrom = "none"
      BY <2>3, <2>6, <2>12 DEF Changed, Task
    <3>2. QED
      BY <2>7, <2>8, <2>12, <3>1 DEF Unworked
  <2>13. QED
    BY <2>1, <2>8, <2>9, <2>10, <2>11, <2>12 DEF AllCommands
<1>7. CASE Tick \/ OpenIssue \/ UNCHANGED vars
  <2>1. UNCHANGED <<tasks, unseen, run>>
    BY <1>7 DEF Tick, OpenIssue, vars, history
  <2>2. \A k \in DOMAIN tasks : Backed(k)' \/ Idle(k)'
    BY <2>1, IdleKept DEF Behind, At
  <2>3. QED
    BY <2>1, <2>2 DEF BackedInv
<1>8. QED
  BY <1>1, <1>2, <1>3, <1>4, <1>5, <1>6, <1>7 DEF Next, Step, Human

\* For any rounds, chains and commands: what a schedule without a reviewer has merged
\* has a locked test, or came to be worked behind the doctor's back, in one of the
\* ways MergedIsBacked lists.
THEOREM MergesAreBacked == Spec => []MergedIsBacked
<1>1. Init => BackedInv
  BY DEF Init, BackedInv
<1>2. BackedInv => MergedIsBacked
  BY DEF BackedInv, MergedIsBacked, Backed, Idle, Unworked
<1>3. QED
  BY <1>1, <1>2, BackedNext, AutopilotTypeCorrect, PTL DEF Spec
=============================================================================
