----------------------------- MODULE AtomicStore -----------------------------
(***************************************************************************)
(* What Store.mutateTasks and Store.upsertTask (lib/store.mjs) promise of  *)
(* tasks.json: "the ONE safe read-modify-write".  A mutation replaces, adds*)
(* or removes the record of one task and leaves the record of every other  *)
(* task as it is, in a single step.  The lifecycle modules are written over*)
(* this store.                                                             *)
(***************************************************************************)
CONSTANTS
    Tasks,     \* task ids
    Versions,  \* the contents a task record may have
    Absent     \* there is no record of the task

VARIABLE disk  \* disk[t]: the record of t in tasks.json

StoreInit == disk \in [Tasks -> Versions \cup {Absent}]

Mutate(t, v) == disk' = [disk EXCEPT ![t] = v]

StoreNext == \E t \in Tasks, v \in Versions \cup {Absent} : Mutate(t, v)

StoreSpec == StoreInit /\ [][StoreNext]_disk
=============================================================================
