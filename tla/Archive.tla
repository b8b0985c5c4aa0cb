------------------------------ MODULE Archive --------------------------------
(***************************************************************************)
(* chalk archive (lib/archive.mjs): released tasks and their events leave  *)
(* tasks.json and updates.jsonl for the files of .chalk/archive/.  Only the*)
(* last write, the shrinking of tasks.json, is made under the spine lock.  *)
(* Meanwhile commands change tasks and log events, another archive may run,*)
(* and each process may be killed between two steps, or within a write that*)
(* has truncated its file.                                                 *)
(***************************************************************************)
EXTENDS Naturals, Sequences, SequencesExt, FiniteSets

CONSTANTS
    Tasks,      \* task ids
    NoTask,     \* the task of an event about the whole project
    Archives,   \* processes that run chalk archive
    MaxRev,     \* bound: revisions of a record
    MaxEvents,  \* bound: events
    MaxKills    \* bound: kills

ASSUME ArchiveAssumption ==
    /\ NoTask \notin Tasks
    /\ MaxRev \in Nat \ {0} /\ {MaxEvents, MaxKills} \subseteq Nat

VARIABLES
    live,   \* tasks.json: the records, a set
    log,    \* updates.jsonl: the numbers of its events
    shelf,  \* tasks-<year>.json: its records; ok: whether it can be parsed
    cold,   \* updates-<year>.jsonl: event numbers, in order
    proc,   \* per archive: how far it is, and what it has read
    cmd,    \* the record a command has read, none if no command is at work
    about,  \* history: the task of every event ever logged
    newest, \* history: the last record written of every task
    kills,  \* kills so far
    raced,  \* history: tasks written while an archive was to move them
    missed, \* history: events logged between an archive's read and rewrite
    lapse   \* history: a write torn, a run killed, two archives at once

spine == <<live, log, shelf, cold>>
history == <<about, newest, kills, raced, missed, lapse>>
vars == <<spine, proc, cmd, history>>

\* released: done and released; after: the tasks it depends on
Records == [id : Tasks, rev : 1..MaxRev, released : BOOLEAN, after : SUBSET Tasks]
NoRecord == [id |-> NoTask, rev |-> 0, released |-> FALSE, after |-> {}]

\* An archive under way: the tasks it moves, the shelf it has read, the events that
\* stay and that go.
Archive == [at : {"off", "shelf", "store", "log", "append", "rewrite", "shrink"},
            move : SUBSET Records, prior : SUBSET Records,
            stay : SUBSET Nat, go : SUBSET Nat]
Off == [at |-> "off", move |-> {}, prior |-> {}, stay |-> {}, go |-> {}]

Init ==
    /\ live = {} /\ log = {} /\ shelf = [ok |-> TRUE, items |-> {}] /\ cold = <<>>
    /\ proc = [a \in Archives |-> Off] /\ cmd = NoRecord
    /\ about = <<>> /\ newest = [t \in Tasks |-> NoRecord]
    /\ kills = 0 /\ raced = {} /\ missed = {} /\ lapse = {}

Ids(records) == {r.id : r \in records}
Running == {a \in Archives : proc[a].at # "off"}
Now(a, at) == proc' = [proc EXCEPT ![a].at = at]

\* emitUpdate appends a line; the archives that have read the log miss it.
Emit(t) ==
    LET n == Len(about) + 1 IN
    /\ about' = Append(about, t)
    /\ log' = log \cup {n}
    /\ missed' = missed \cup (IF \E a \in Archives : proc[a].at \in {"append", "rewrite"}
                              THEN {n} ELSE {})

-----------------------------------------------------------------------------
(* runArchive                                                              *)

\* Mutant: a task that others depend on is moved as well.
MoveAllReleased(records) == {r \in records : r.released}

\* planArchive: a candidate that a remaining task depends on stays.
PlanArchive(records) ==
    LET candidates == {r \in records : r.released}
        remaining == records \ candidates
    IN  {c \in candidates : \A r \in remaining : c.id \notin r.after}

Start(a) ==
    /\ proc[a] = Off /\ PlanArchive(live) # {}
    /\ proc' = [proc EXCEPT ![a] = [Off EXCEPT !.at = "shelf", !.move = PlanArchive(live)]]
    /\ lapse' = IF Running # {} THEN lapse \cup {"overlap"} ELSE lapse
    /\ UNCHANGED <<spine, cmd, about, newest, kills, raced, missed>>

\* A year's file that cannot be parsed ends the command.
ReadShelf(a) ==
    /\ proc[a].at = "shelf"
    /\ proc' = [proc EXCEPT ![a] = IF shelf.ok
                                   THEN [@ EXCEPT !.at = "store", !.prior = shelf.items]
                                   ELSE Off]
    /\ UNCHANGED <<spine, cmd, history>>

\* Mutant: the file is replaced by this run's tasks.
ShelveAnew(a) ==
    /\ proc[a].at = "store"
    /\ shelf' = [ok |-> TRUE, items |-> proc[a].move]
    /\ Now(a, "log")
    /\ UNCHANGED <<live, log, cold, cmd, history>>

\* Append-merged, idempotent on id: an archived record is never replaced.
Shelve(a) ==
    /\ proc[a].at = "store"
    /\ shelf' = [ok |-> TRUE,
                 items |-> proc[a].prior
                           \cup {r \in proc[a].move : r.id \notin Ids(proc[a].prior)}]
    /\ Now(a, "log")
    /\ UNCHANGED <<live, log, cold, cmd, history>>

Split(a) ==
    /\ proc[a].at = "log"
    /\ LET go == {n \in log : about[n] \in Ids(proc[a].move)}
       IN  proc' = [proc EXCEPT ![a] = [@ EXCEPT !.at = "append", !.go = go,
                                                 !.stay = log \ go]]
    /\ UNCHANGED <<spine, cmd, history>>

\* Mutant: the year's events are replaced by this run's.
AppendAnew(a) ==
    /\ proc[a].at = "append"
    /\ cold' = SetToSeq(proc[a].go)
    /\ Now(a, "rewrite")
    /\ UNCHANGED <<live, log, shelf, cmd, history>>

AppendEvents(a) ==
    /\ proc[a].at = "append"
    /\ cold' = cold \o SetToSeq(proc[a].go)
    /\ Now(a, "rewrite")
    /\ UNCHANGED <<live, log, shelf, cmd, history>>

\* Mutant: the moved events stay in the log, too.
RewriteNothing(a) ==
    /\ proc[a].at = "rewrite"
    /\ Now(a, "shrink")
    /\ UNCHANGED <<spine, cmd, history>>

RewriteLog(a) ==
    /\ proc[a].at = "rewrite"
    /\ log' = proc[a].stay
    /\ Now(a, "shrink")
    /\ UNCHANGED <<live, shelf, cold, cmd, history>>

\* mutateTasks: what is on disk now, without the moved tasks.  Then the event.
Shrink(a) ==
    /\ proc[a].at = "shrink" /\ Len(about) < MaxEvents
    /\ live' = {r \in live : r.id \notin Ids(proc[a].move)}
    /\ Emit(NoTask)
    /\ proc' = [proc EXCEPT ![a] = Off]
    /\ UNCHANGED <<shelf, cold, cmd, newest, kills, raced, lapse>>

Archiving(a) ==
    \/ Start(a) \/ ReadShelf(a) \/ Shelve(a) \/ Split(a)
    \/ AppendEvents(a) \/ RewriteLog(a) \/ Shrink(a)

-----------------------------------------------------------------------------
(* The other commands: upsertTask and emitUpdate.                          *)

Upsert(r) ==
    /\ live' = {x \in live : x.id # r.id} \cup {r}
    /\ newest' = [newest EXCEPT ![r.id] = r]
    /\ raced' = raced \cup (IF \E a \in Archives : r.id \in Ids(proc[a].move)
                            THEN {r.id} ELSE {})
    /\ Emit(r.id)

\* chalk add --after
Add(t) ==
    /\ cmd = NoRecord /\ newest[t] = NoRecord /\ Len(about) < MaxEvents
    /\ \E deps \in SUBSET Ids(live) :
          Upsert([id |-> t, rev |-> 1, released |-> FALSE, after |-> deps])
    /\ lapse' = IF Running # {} THEN lapse \cup {"added"} ELSE lapse
    /\ UNCHANGED <<shelf, cold, proc, cmd, kills>>

\* A command reads a task, and writes it: chalk release marks it, a redirect
\* re-opens it.
Read ==
    /\ cmd = NoRecord
    /\ cmd' \in {r \in live : r.rev < MaxRev}
    /\ UNCHANGED <<spine, proc, history>>

Write ==
    /\ cmd # NoRecord /\ Len(about) < MaxEvents
    /\ Upsert([cmd EXCEPT !.rev = @ + 1, !.released = ~@])
    /\ cmd' = NoRecord
    /\ lapse' = IF cmd.id \notin Ids(live) THEN lapse \cup {"resurrected"} ELSE lapse
    /\ UNCHANGED <<shelf, cold, proc, kills>>

-----------------------------------------------------------------------------
(* Kills.                                                                  *)

Killed(a, what) ==
    /\ proc[a] # Off /\ kills < MaxKills
    /\ kills' = kills + 1
    /\ proc' = [proc EXCEPT ![a] = Off]
    /\ lapse' = lapse \cup {what}

Kill(a) ==
    /\ Killed(a, "killed")
    /\ UNCHANGED <<spine, cmd, about, newest, raced, missed>>

\* writeFileSync truncates before it writes.
KillInShelve(a) ==
    /\ proc[a].at = "store" /\ Killed(a, "torn")
    /\ shelf' = [ok |-> FALSE, items |-> {}]
    /\ UNCHANGED <<live, log, cold, cmd, about, newest, raced, missed>>

KillInRewrite(a) ==
    /\ proc[a].at = "rewrite" /\ Killed(a, "torn")
    /\ \E kept \in SUBSET proc[a].stay : log' = kept
    /\ UNCHANGED <<live, shelf, cold, cmd, about, newest, raced, missed>>

Next ==
    \/ \E a \in Archives : Archiving(a) \/ Kill(a) \/ KillInShelve(a) \/ KillInRewrite(a)
    \/ \E t \in Tasks : Add(t)
    \/ Read \/ Write

Spec == Init /\ [][Next]_vars

-----------------------------------------------------------------------------
(* Properties.                                                             *)

TypeOK ==
    /\ live \subseteq Records /\ \A r, s \in live : r.id = s.id => r = s
    /\ shelf \in [ok : BOOLEAN, items : SUBSET Records]
    /\ about \in Seq(Tasks \cup {NoTask}) /\ Len(about) <= MaxEvents
    /\ log \subseteq DOMAIN about /\ cold \in Seq(DOMAIN about)
    /\ proc \in [Archives -> Archive]
    /\ \A a \in Archives : proc[a].go \cup proc[a].stay \subseteq DOMAIN about
    /\ cmd \in {r \in Records : r.rev < MaxRev} \cup {NoRecord}
    /\ newest \in [Tasks -> Records \cup {NoRecord}]
    /\ kills \in 0..MaxKills /\ raced \subseteq Tasks /\ missed \subseteq DOMAIN about
    /\ lapse \subseteq {"overlap", "torn", "killed", "added", "resurrected"}

Torn == lapse \cap {"torn", "overlap"} # {}

\* "Without deleting anything", tasks: every task is in the spine or in the
\* archive, after a kill between any two steps too, but not after one within the
\* write of the archive file or when two archives ran at once; and so is its last
\* state, unless that was written while an archive was about to remove it, or a
\* killed archive left an older one on the shelf.
RecordsKept ==
    Torn \/
    \A t \in Tasks : newest[t] # NoRecord =>
        /\ t \in Ids(live \cup shelf.items)
        /\ \/ lapse \cap {"killed", "resurrected"} # {}
           \/ t \in raced
           \/ newest[t] \in live \cup shelf.items

\* "Without deleting anything", events: every event is in a log, unless it was
\* written between an archive's read and its rewrite; also with two at once.
EventsKept ==
    "torn" \in lapse \/ DOMAIN about \ missed \subseteq log \cup Range(cold)

\* No event is archived twice, nor archived and live, but when a run was killed
\* between the two writes, which the next one repeats.
EventsOnce ==
    \/ lapse \cap {"killed", "torn", "overlap"} # {}
    \/ /\ Cardinality(Range(cold)) = Len(cold)
       /\ Running = {} => log \cap Range(cold) = {}

\* "No dangling DAG edges": what a task that was never released depends on is in
\* the spine, unless a task was added while an archive ran.
NoDanglingEdges ==
    \/ "added" \in lapse
    \/ \A r \in live : r.rev = 1 => r.after \subseteq Ids(live)

\* "A task still referenced by a remaining task's `after` is KEPT": what one archive
\* leaves, when nothing else happens, depends on tasks of the spine only.
ReferencedIsKept ==
    Running = {} /\ raced = {} /\ lapse = {} => \A r \in live : r.after \subseteq Ids(live)

=============================================================================
