----------------------------- MODULE SpineStore ------------------------------
(***************************************************************************)
(* The mutations of tasks.json under the spine lock: Store.mutateTasks and *)
(* Store.upsertTask of lib/store.mjs, composed with SpineLock.             *)
(*                                                                         *)
(* The body of withLock reads the whole file, applies the change of one    *)
(* task to what it read, and renames a complete new file over the old one. *)
(* Reading and renaming are two steps: whatever another process renamed    *)
(* into place between them is overwritten.                                 *)
(***************************************************************************)
EXTENDS SpineLock

CONSTANTS
    Tasks,     \* task ids
    Versions,  \* contents of a task record
    Absent     \* the task has no record

ASSUME StoreAssumption == Absent \notin Versions

VARIABLES
    disk,  \* tasks.json
    step,  \* step[p]: how far p is in the body
    buf,   \* buf[p]: the tasks p has read in the body
    acked  \* history: every task's last written version

storeVars == <<disk, step, buf, acked>>
vars == <<lockVars, storeVars>>

Records == Versions \cup {Absent}
Files == [Tasks -> Records]

StoreTypeOK ==
    /\ LockTypeOK
    /\ disk \in Files
    /\ step \in [Procs -> {"read", "write", "return"}]
    /\ buf \in [Procs -> Files]
    /\ acked \in Files

Blank == [t \in Tasks |-> Absent]

Init ==
    /\ LockInit
    /\ disk \in Files
    /\ acked = disk
    /\ step = [p \in Procs |-> "read"]
    /\ buf = [p \in Procs |-> Blank]

-----------------------------------------------------------------------------

\* mutateTasks is called with a change.
Call(p) ==
    /\ Enter(p)
    /\ step' = [step EXCEPT ![p] = "read"]
    /\ UNCHANGED <<disk, buf, acked>>

\* Mutant: the tasks are read before withLock, and only written under the lock.
ReadTasksBeforeLock(p) ==
    /\ pc[p] # "idle" /\ step[p] = "read"
    /\ buf' = [buf EXCEPT ![p] = disk]
    /\ step' = [step EXCEPT ![p] = "write"]
    /\ UNCHANGED <<lockVars, disk, acked>>

\* this.tasks(): the freshest set on disk.
ReadTasks(p) ==
    /\ pc[p] = "body" /\ step[p] = "read"
    /\ buf' = [buf EXCEPT ![p] = disk]
    /\ step' = [step EXCEPT ![p] = "write"]
    /\ UNCHANGED <<lockVars, disk, acked>>

\* The change of one task, upsertTask's new record or none at all, and the new file.
Change(p, t, v) ==
    /\ disk' = [buf[p] EXCEPT ![t] = v]
    /\ acked' = [acked EXCEPT ![t] = v]

\* fn(tasks), then saveTasks: a temporary file renamed over tasks.json.
WriteTasks(p) ==
    /\ pc[p] = "body" /\ step[p] = "write"
    /\ \E t \in Tasks, v \in Records : Change(p, t, v)
    /\ step' = [step EXCEPT ![p] = "return"]
    /\ buf' = [buf EXCEPT ![p] = Blank]
    /\ UNCHANGED lockVars

\* The finally block of withLock, once the body has returned.
Return(p) ==
    /\ step[p] = "return"
    /\ Release(p)
    /\ UNCHANGED storeVars

\* A killed process forgets what it read; tasks.json is complete before and
\* after the rename, so it is never left half written.
Killed(p) ==
    /\ Crash(p)
    /\ buf' = [buf EXCEPT ![p] = Blank]
    /\ UNCHANGED <<disk, step, acked>>

Acquiring(p) == Acquire(p) /\ UNCHANGED storeVars

Ticking == Tick /\ UNCHANGED storeVars

Next ==
    \/ \E p \in Procs :
          \/ Call(p)
          \/ Acquiring(p)
          \/ ReadTasks(p)
          \/ WriteTasks(p)
          \/ Return(p)
          \/ Killed(p)
    \/ Ticking

Spec == Init /\ [][Next]_vars

\* A process in withLock keeps executing and the clock keeps running; nothing
\* makes a process call withLock, or be killed.
StoreFairness ==
    /\ \A p \in Procs :
          /\ WF_vars(Acquiring(p))
          /\ WF_vars(ReadTasks(p) \/ WriteTasks(p) \/ Return(p))
    /\ WF_vars(Ticking)

FairSpec == Spec /\ StoreFairness

-----------------------------------------------------------------------------

\* Until the lock has been lost, tasks.json holds every task's last written
\* version: no process overwrites what another wrote between its read and its
\* rename, and no crash drops or doubles a write.
NoLostUpdate == breaches = {} => disk = acked

\* While the lock has not been lost, what a process read in the body is still
\* on disk when it renames.
FreshUntilWritten ==
    breaches = {} =>
        \A p \in Procs :
            pc[p] = "body" /\ step[p] = "write" => buf[p] = disk

\* tasks.json as its writers believe it to be: what is on disk, and once the lock
\* has been lost (and nothing is promised of the disk) what was last written.
Contents == IF breaches = {} THEN disk ELSE acked

\* Until the lock is lost tasks.json is the atomic store the lifecycle modules are
\* written over, and the loss itself changes nothing on disk.
Atomic == INSTANCE AtomicStore WITH disk <- Contents
ImplementsAtomicStore == Atomic!StoreSpec
=============================================================================
